---- MODULE Spec2Model ----
(***************************************************************************)
(* Operation tracking of the classification front end:                     *)
(*   - the progress registry of contexts/ProgressContext.tsx               *)
(*     (activeOperations, history, their localStorage snapshots),          *)
(*   - the SSE client classifyApi.subscribeToProgress of services/api.ts,  *)
(*   - the completion arbiter App.handleClassifyDocument of App.tsx.       *)
(* One JavaScript task (an event handler, a timer callback, a mount) is    *)
(* one action; React state updaters queued by a task and the persistence   *)
(* effects of the render they cause are part of that action.               *)
(***************************************************************************)
EXTENDS Integers, Sequences, FiniteSets, TLC

(***************************************************************************)
(* Bounds of the model.                                                    *)
(***************************************************************************)
\* document ids used by the calls explored: 1..NumDocs
NumDocs == 2
\* number of one-millisecond advances of the clock that are explored
MaxShortTicks == 1
\* number of five-minute advances of the clock that are explored
MaxLongTicks == 1
\* number of addProgress calls explored
MaxProgress == 2
\* number of startOperation calls explored
MaxStarts == 2
\* number of localStorage writes that are rejected
MaxRejected == 1
\* number of page reloads explored
MaxReloads == 1
\* number of events of a closed transport that are delivered after close()
MaxInFlight == 1
\* number of transports that fail
MaxDrops == 5

(***************************************************************************)
(* Program constants.                                                      *)
(***************************************************************************)
MAX_HISTORY == 50
fiveMinutes == 5 * 60 * 1000

Docs == 1..NumDocs
\* the progress messages of a classification, in the order they are sent
Messages == <<"Extracting", "Classifying", "Finalizing">>
ErrorMessages == {"Connection error"}
\* the value of an optional string field that is not set
Undefined == "<undefined>"
\* the value of completedAt when it is not set
NoTime == -1
InterruptedMessage == "Operation interrupted (page refresh)"
\* the filename handleClassifyDocument finds for a document among the
\* uploaded ones: document 1 is listed there, the others are not
FilenameOf(d) == IF d = 1 THEN "a.pdf" ELSE Undefined

VARIABLES
  activeOperations, \* Map<string, ProgressOperation>, in insertion order
  history,          \* ProgressOperation[], most recent first
  lsActive,         \* localStorage[ACTIVE_STORAGE_KEY]
  lsHistory,        \* localStorage[STORAGE_KEY]
  now,              \* Date.now()
  shortTicks,       \* one-millisecond advances made so far
  longTicks,        \* five-minute advances made so far
  nStarts,          \* startOperation calls made so far
  nProgress,        \* addProgress calls made so far
  nRejected,        \* localStorage writes rejected so far
  nReloads,         \* page reloads made so far
  uploadedDocs,     \* App: the document ids of uploadedDocs
  classifyingDocs,  \* App: Set<string> of the documents being classified
  arbiter,          \* per run of handleClassifyDocument: its locals
  subscription,     \* per run of subscribeToProgress: its locals
  owner,            \* per document: the run whose startOperation made its entry
  observed,         \* per run: what its callbacks and calls were seen to do
  nDrops            \* transports that failed so far

regVars == <<activeOperations, history, lsActive, lsHistory>>
clockVars == <<now, shortTicks, longTicks>>
countVars == <<nStarts, nProgress, nRejected, nReloads>>
appVars == <<uploadedDocs, classifyingDocs, arbiter, subscription, owner, observed, nDrops>>
vars == <<activeOperations, history, lsActive, lsHistory, now, shortTicks, longTicks,
          nStarts, nProgress, nRejected, nReloads,
          uploadedDocs, classifyingDocs, arbiter, subscription, owner, observed, nDrops>>

(***************************************************************************)
(* Sequences.                                                              *)
(***************************************************************************)
\* Array.prototype.slice(0, n)
Slice(s, n) == SubSeq(s, 1, IF Len(s) < n THEN Len(s) ELSE n)

(***************************************************************************)
(* Map<string, ProgressOperation>: a sequence of operations with distinct  *)
(* documentId, in insertion order (the order of Map.values()).             *)
(***************************************************************************)
MapHas(m, id) == \E i \in 1..Len(m) : m[i].documentId = id

MapIndex(m, id) == CHOOSE i \in 1..Len(m) : m[i].documentId = id

MapGet(m, id) == m[MapIndex(m, id)]

\* Map.set: an existing key keeps its position, a new key goes last
MapSet(m, id, op) ==
  IF MapHas(m, id) THEN [m EXCEPT ![MapIndex(m, id)] = op] ELSE Append(m, op)

\* Map.delete
MapDelete(m, id) == SelectSeq(m, LAMBDA op : op.documentId # id)

\* new Map(entries): the keys in the order of their first entry, each with
\* the value of its last entry
MapFromSeq(s) ==
  LET n == Len(s)
      first == SelectSeq([i \in 1..n |-> i],
                 LAMBDA i : \A j \in 1..(i - 1) : s[j].documentId # s[i].documentId)
      lastOf(i) == CHOOSE j \in i..n :
                     /\ s[j].documentId = s[i].documentId
                     /\ \A k \in (j + 1)..n : s[k].documentId # s[i].documentId
  IN [k \in 1..Len(first) |-> s[lastOf(first[k])]]

(***************************************************************************)
(* JSON.  A serialized operation is the object JSON.stringify writes: the  *)
(* keys whose value is undefined are left out; JSON.parse gives back an    *)
(* object on which a key that is missing reads as undefined.               *)
(***************************************************************************)
JsonKeys(op) ==
  {"documentId", "status", "steps", "startedAt"}
    \cup (IF op.filename # Undefined THEN {"filename"} ELSE {})
    \cup (IF op.completedAt # NoTime THEN {"completedAt"} ELSE {})
    \cup (IF op.error # Undefined THEN {"error"} ELSE {})

\* JSON.stringify of an operation, first with a slip: the error is left out
StringifyOperationNoError(op) == [k \in JsonKeys(op) \ {"error"} |-> op[k]]

StringifyOperation(op) == [k \in JsonKeys(op) |-> op[k]]

ParseOperation(j) ==
  [documentId  |-> j.documentId,
   filename    |-> IF "filename" \in DOMAIN j THEN j.filename ELSE Undefined,
   status      |-> j.status,
   steps       |-> j.steps,
   startedAt   |-> j.startedAt,
   completedAt |-> IF "completedAt" \in DOMAIN j THEN j.completedAt ELSE NoTime,
   error       |-> IF "error" \in DOMAIN j THEN j.error ELSE Undefined]

\* JSON.stringify of an array of operations
Stringify(ops) == [i \in 1..Len(ops) |-> StringifyOperation(ops[i])]

\* JSON.parse of such a text
Parse(json) == [i \in 1..Len(json) |-> ParseOperation(json[i])]

(***************************************************************************)
(* localStorage: one key is absent (getItem gives null) or holds a text.   *)
(***************************************************************************)
Absent == [present |-> FALSE, json |-> <<>>]

Stored(ops) == [present |-> TRUE, json |-> Stringify(ops)]

\* localStorage.setItem inside try/catch: a rejected write (ok = FALSE) is
\* logged and leaves the key as it was
SetItem(key, ops, ok) == IF ok THEN Stored(ops) ELSE key

\* the initializer of useState(activeOperations)
LoadActive(key) == IF key.present THEN MapFromSeq(Parse(key.json)) ELSE <<>>

\* the initializer of useState(history)
LoadHistory(key) == IF key.present THEN Parse(key.json) ELSE <<>>

(***************************************************************************)
(* The registry's state updaters.  m is the React state while the updates  *)
(* of one task are applied: the two state values and, for each, whether    *)
(* its identity changed (so that its persistence effect runs).             *)
(***************************************************************************)
Mem(a, h) == [active |-> a, history |-> h, dirtyActive |-> FALSE, dirtyHistory |-> FALSE]

NewStep(documentId, message, type, t) ==
  [id |-> <<documentId, t>>, message |-> message, timestamp |-> t, type |-> type]

\* startOperation, first with a slip: an entry that exists keeps its steps
startOperationKeepsSteps(m, documentId, filename, t) ==
  LET operation == [documentId  |-> documentId,
                    filename    |-> filename,
                    status      |-> "active",
                    steps       |-> IF MapHas(m.active, documentId)
                                    THEN MapGet(m.active, documentId).steps
                                    ELSE <<>>,
                    startedAt   |-> t,
                    completedAt |-> NoTime,
                    error       |-> Undefined]
  IN [m EXCEPT !.active = MapSet(m.active, documentId, operation),
               !.dirtyActive = TRUE]

startOperation(m, documentId, filename, t) ==
  LET operation == [documentId  |-> documentId,
                    filename    |-> filename,
                    status      |-> "active",
                    steps       |-> <<>>,
                    startedAt   |-> t,
                    completedAt |-> NoTime,
                    error       |-> Undefined]
  IN [m EXCEPT !.active = MapSet(m.active, documentId, operation),
               !.dirtyActive = TRUE]

\* addProgress; first with a slip: the new step is put in front of the
\* others
addProgressInFront(m, documentId, message, type, t) ==
  IF MapHas(m.active, documentId)
  THEN LET operation == MapGet(m.active, documentId)
           pushed == [operation EXCEPT
                        !.steps = <<NewStep(documentId, message, type, t)>> \o @]
       IN [m EXCEPT !.active = MapSet(m.active, documentId, pushed),
                    !.dirtyActive = TRUE]
  ELSE [m EXCEPT !.dirtyActive = TRUE]

\* then with a slip: progress for an id without an active entry makes one
addProgressResurrects(m, documentId, message, type, t) ==
  LET operation == IF MapHas(m.active, documentId)
                   THEN MapGet(m.active, documentId)
                   ELSE [documentId  |-> documentId,
                         filename    |-> Undefined,
                         status      |-> "active",
                         steps       |-> <<>>,
                         startedAt   |-> t,
                         completedAt |-> NoTime,
                         error       |-> Undefined]
      pushed == [operation EXCEPT
                   !.steps = Append(@, NewStep(documentId, message, type, t))]
  IN [m EXCEPT !.active = MapSet(m.active, documentId, pushed),
               !.dirtyActive = TRUE]

addProgress(m, documentId, message, type, t) ==
  IF MapHas(m.active, documentId)
  THEN LET operation == MapGet(m.active, documentId)
           pushed == [operation EXCEPT
                        !.steps = Append(@, NewStep(documentId, message, type, t))]
       IN [m EXCEPT !.active = MapSet(m.active, documentId, pushed),
                    !.dirtyActive = TRUE]
  ELSE [m EXCEPT !.dirtyActive = TRUE]

\* the isDuplicate test of the setHistory updaters
isDuplicate(prevHistory, documentId, startedAt) ==
  \E i \in 1..Len(prevHistory) :
    prevHistory[i].documentId = documentId /\ prevHistory[i].startedAt = startedAt

\* the setHistory updater of completeOperation and errorOperation; first
\* with a slip: the entry of the same document is overwritten
AddToHistoryOverwrites(m, finished) ==
  IF \E i \in 1..Len(m.history) : m.history[i].documentId = finished.documentId
  THEN [m EXCEPT !.history = [i \in 1..Len(m.history) |->
                                IF m.history[i].documentId = finished.documentId
                                THEN finished
                                ELSE m.history[i]],
                 !.dirtyHistory = TRUE]
  ELSE [m EXCEPT !.history = Slice(<<finished>> \o m.history, MAX_HISTORY),
                 !.dirtyHistory = TRUE]

\* then with a slip: the finished entry is put behind the first entry
AddToHistorySecond(m, finished) ==
  IF isDuplicate(m.history, finished.documentId, finished.startedAt)
  THEN m
  ELSE [m EXCEPT !.history = IF m.history = <<>>
                             THEN <<finished>>
                             ELSE Slice(<<m.history[1], finished>> \o Tail(m.history),
                                        MAX_HISTORY),
                 !.dirtyHistory = TRUE]

AddToHistory(m, finished) ==
  IF isDuplicate(m.history, finished.documentId, finished.startedAt)
  THEN m
  ELSE [m EXCEPT !.history = Slice(<<finished>> \o m.history, MAX_HISTORY),
                 !.dirtyHistory = TRUE]

\* completeOperation; first with a slip: the map is emptied
completeOperationClearsAll(m, documentId, t) ==
  IF ~MapHas(m.active, documentId)
  THEN m
  ELSE LET operation == MapGet(m.active, documentId)
           completedOperation ==
             [operation EXCEPT !.status = "completed", !.completedAt = t]
           added == AddToHistory(m, completedOperation)
       IN [added EXCEPT !.active = <<>>,
                        !.dirtyActive = TRUE]

\* then with a slip: the finished entry is put back under its key instead
\* of being deleted from the map
completeOperationKeepsEntry(m, documentId, t) ==
  IF ~MapHas(m.active, documentId)
  THEN m
  ELSE LET operation == MapGet(m.active, documentId)
           completedOperation ==
             [operation EXCEPT !.status = "completed", !.completedAt = t]
           added == AddToHistory(m, completedOperation)
       IN [added EXCEPT !.active = MapSet(m.active, documentId, completedOperation),
                        !.dirtyActive = TRUE]

completeOperation(m, documentId, t) ==
  IF ~MapHas(m.active, documentId)
  THEN m
  ELSE LET operation == MapGet(m.active, documentId)
           completedOperation ==
             [operation EXCEPT !.status = "completed", !.completedAt = t]
           added == AddToHistory(m, completedOperation)
       IN [added EXCEPT !.active = MapDelete(m.active, documentId),
                        !.dirtyActive = TRUE]

\* errorOperation, first with a slip: the message is not recorded
errorOperationNoMessage(m, documentId, error, t) ==
  IF ~MapHas(m.active, documentId)
  THEN m
  ELSE LET operation == MapGet(m.active, documentId)
           erroredOperation ==
             [operation EXCEPT !.status = "error", !.completedAt = t]
           added == AddToHistory(m, erroredOperation)
       IN [added EXCEPT !.active = MapDelete(m.active, documentId),
                        !.dirtyActive = TRUE]

errorOperation(m, documentId, error, t) ==
  IF ~MapHas(m.active, documentId)
  THEN m
  ELSE LET operation == MapGet(m.active, documentId)
           erroredOperation ==
             [operation EXCEPT !.status = "error", !.completedAt = t, !.error = error]
           added == AddToHistory(m, erroredOperation)
       IN [added EXCEPT !.active = MapDelete(m.active, documentId),
                        !.dirtyActive = TRUE]

\* removeOperation, first with a slip: the removed entry is kept as a record
removeOperationRecorded(m, documentId) ==
  IF MapHas(m.active, documentId)
  THEN [m EXCEPT !.active = MapDelete(m.active, documentId),
                 !.history = Slice(<<MapGet(m.active, documentId)>> \o @, MAX_HISTORY),
                 !.dirtyActive = TRUE,
                 !.dirtyHistory = TRUE]
  ELSE [m EXCEPT !.dirtyActive = TRUE]

removeOperation(m, documentId) ==
  [m EXCEPT !.active = MapDelete(m.active, documentId), !.dirtyActive = TRUE]

\* the test of the mount effect's forEach
\* the test of the mount effect, first with a slip: five minutes are stale
IsStaleAtFiveMinutes(op, t) == t - op.startedAt >= fiveMinutes

IsStale(op, t) == t - op.startedAt > fiveMinutes

\* the mount effect: stale operations go to history as interrupted
staleEffect(m, t) ==
  LET stale == SelectSeq(m.active, LAMBDA op : IsStale(op, t))
      staleOps == [i \in 1..Len(stale) |->
                     [stale[i] EXCEPT !.status = "error",
                                      !.completedAt = t,
                                      !.error = InterruptedMessage]]
      newMap == SelectSeq(m.active, LAMBDA op : ~IsStale(op, t))
  IN [active       |-> newMap,
      history      |-> IF Len(staleOps) > 0
                       THEN Slice(staleOps \o m.history, MAX_HISTORY)
                       ELSE m.history,
      dirtyActive  |-> TRUE,
      dirtyHistory |-> m.dirtyHistory \/ Len(staleOps) > 0]

\* getOperation
getOperation(documentId) ==
  IF MapHas(activeOperations, documentId)
  THEN MapGet(activeOperations, documentId)
  ELSE Undefined

\* exportHistory: JSON.stringify(history, null, 2)
exportHistory == Stringify(history)

(***************************************************************************)
(* The render that follows a task: the new state values are committed and  *)
(* the persistence effect of each value whose identity changed rewrites    *)
(* its snapshot; okActive, okHistory tell whether localStorage accepts the *)
(* write.                                                                  *)
(***************************************************************************)
\* Commit, first with a slip: a rejected write is not caught and the task
\* ends before the state is set
CommitUnlessRejected(m, okActive, okHistory) ==
  LET thrown == (m.dirtyActive /\ ~okActive) \/ (m.dirtyHistory /\ ~okHistory)
  IN /\ activeOperations' = IF thrown THEN activeOperations ELSE m.active
     /\ history' = IF thrown THEN history ELSE m.history
     /\ lsActive' = IF m.dirtyActive THEN SetItem(lsActive, m.active, okActive) ELSE lsActive
     /\ lsHistory' = IF m.dirtyHistory THEN SetItem(lsHistory, m.history, okHistory) ELSE lsHistory

Commit(m, okActive, okHistory) ==
  /\ activeOperations' = m.active
  /\ history' = m.history
  /\ lsActive' = IF m.dirtyActive THEN SetItem(lsActive, m.active, okActive) ELSE lsActive
  /\ lsHistory' = IF m.dirtyHistory THEN SetItem(lsHistory, m.history, okHistory) ELSE lsHistory

BoolToNat(b) == IF b THEN 1 ELSE 0

\* the writes of Commit that are rejected; a write that does not happen is
\* not rejected
Rejections(m, okActive, okHistory) ==
  BoolToNat(m.dirtyActive /\ ~okActive) + BoolToNat(m.dirtyHistory /\ ~okHistory)

Render(m, okActive, okHistory) ==
  /\ m.dirtyActive \/ okActive
  /\ m.dirtyHistory \/ okHistory
  /\ nRejected + Rejections(m, okActive, okHistory) <= MaxRejected
  /\ nRejected' = nRejected + Rejections(m, okActive, okHistory)
  /\ Commit(m, okActive, okHistory)

Current == Mem(activeOperations, history)

(***************************************************************************)
(* Mounting ProgressProvider on the snapshots keyA, keyH at time t: the    *)
(* two useState initializers, the first run of the two persistence         *)
(* effects (ok1, ok2), the mount effect, and the persistence effects of    *)
(* the render it causes (ok3, ok4).                                        *)
(***************************************************************************)
Mount(keyA, keyH, t, ok1, ok2, ok3, ok4) ==
  LET loadedActive == LoadActive(keyA)
      loadedHistory == LoadHistory(keyH)
      keyA1 == SetItem(keyA, loadedActive, ok1)
      keyH1 == SetItem(keyH, loadedHistory, ok2)
      m == staleEffect(Mem(loadedActive, loadedHistory), t)
  IN [active    |-> m.active,
      history   |-> m.history,
      lsActive  |-> SetItem(keyA1, m.active, ok3),
      lsHistory |-> IF m.dirtyHistory THEN SetItem(keyH1, m.history, ok4) ELSE keyH1,
      rejected  |-> BoolToNat(~ok1) + BoolToNat(~ok2) + BoolToNat(~ok3)
                      + BoolToNat(m.dirtyHistory /\ ~ok4),
      wrote4    |-> m.dirtyHistory]

(***************************************************************************)
(* One run of App.handleClassifyDocument and the subscription it makes     *)
(* with classifyApi.subscribeToProgress.  The runs are numbered in the     *)
(* order they start.  w is the state a task of run a works on: the React   *)
(* state m, the locals arb of handleClassifyDocument, the locals sub of    *)
(* subscribeToProgress, classifyingDocs cd, and what is observed of the    *)
(* run, obs.                                                               *)
(***************************************************************************)
Runs == 1..MaxStarts

maxReconnectAttempts == 3

ServerErrorMessage == "Server reported an error during classification"
ConnectionLostMessage == "Connection lost. Please refresh the page and try again."
ConnectFailedMessage == "Failed to establish connection"
RequestFailedMessage == "Request failed"

\* the locals of handleClassifyDocument; pc is where the async function is:
\* "idle" not called, "awaiting" between subscribing and the resolution of
\* the request, "resolved" past the try block, "failed" past the catch
\* block, "crashed" left by an exception
NoArbiter ==
  [docId |-> 0, pc |-> "idle", isCompleted |-> FALSE,
   completionTimer |-> FALSE, cleanupTimer |-> FALSE]

\* the locals of subscribeToProgress; eventSource is "null" or the
\* readyState of the EventSource it refers to; reconnectTimer tells whether
\* the timeout is pending; inFlight counts the events of a transport that
\* was open when close() was called on it and that may still be delivered
NoSubscription ==
  [eventSource |-> "null", reconnectAttempts |-> 0, isManuallyCloseD |-> FALSE,
   reconnectTimer |-> FALSE, inFlight |-> 0]

\* what is observed of a run: the completeOperation/errorOperation calls of
\* its arbiter and the history entries they made, the cleanup() calls, the
\* connection-lost reports, the reconnections scheduled, the reconnections
\* since the last open that failed, whether the current transport is a
\* reconnection that has neither opened nor failed yet, whether the
\* subscription has ended (a complete or error frame was delivered to its
\* callback, or cleanup() was called), whether a callback was invoked
\* after that, and the first signal the run got: "stream-complete" (a
\* complete frame), "stream-error" (an error frame, connection lost, or a
\* connection that could not be made), "request-success",
\* "request-failure", or "none"
NothingObserved ==
  [terminalCalls |-> 0, historyAdds |-> 0, cleanups |-> 0, lost |-> 0,
   retries |-> 0, failedRetries |-> 0, pendingRetry |-> FALSE,
   ended |-> FALSE, late |-> FALSE, signal |-> "none", skipped |-> FALSE]

\* the run gets the signal s
Heard(w, s) == IF w.obs.signal = "none" THEN [w EXCEPT !.obs.signal = s] ELSE w

\* a completeOperation or errorOperation call of the arbiter gave m2
CallTerminal(w, m2) ==
  [w EXCEPT !.m = m2,
            !.obs.terminalCalls = @ + 1,
            !.obs.historyAdds = @ + BoolToNat(m2.history # w.m.history)]

\* the subscription invokes one of its three callbacks
Invoke(w) == [w EXCEPT !.obs.late = @ \/ w.obs.ended]

\* cleanup of subscribeToProgress, which is also unsubscribe of the arbiter;
\* first with a slip: a second call finds isManuallyCloseD set and takes it
\* back
cleanupToggles(w) ==
  IF w.sub.isManuallyCloseD
  THEN [w EXCEPT !.sub.isManuallyCloseD = FALSE,
                 !.obs.cleanups = @ + 1]
  ELSE [w EXCEPT !.sub.isManuallyCloseD = TRUE,
                 !.sub.reconnectTimer = FALSE,
                 !.sub.eventSource = "null",
                 !.sub.inFlight = IF w.sub.eventSource = "open" THEN MaxInFlight ELSE @,
                 !.obs.cleanups = @ + 1,
                 !.obs.ended = TRUE]

\* then with a slip: the transport is not closed
cleanupKeepsTransport(w) ==
  [w EXCEPT !.sub.isManuallyCloseD = TRUE,
            !.sub.reconnectTimer = FALSE,
            !.obs.cleanups = @ + 1,
            !.obs.ended = TRUE]

cleanup(w) ==
  [w EXCEPT !.sub.isManuallyCloseD = TRUE,
            !.sub.reconnectTimer = FALSE,
            !.sub.eventSource = "null",
            !.sub.inFlight = IF w.sub.eventSource = "open" THEN MaxInFlight ELSE @,
            !.obs.cleanups = @ + 1,
            !.obs.ended = TRUE]

\* removing the document from classifyingDocs
Unmark(w) == [w EXCEPT !.cd = @ \ {w.arb.docId}]

\* the three callbacks handleClassifyDocument passes to subscribeToProgress
onProgress(w, message, t) ==
  [w EXCEPT !.m = addProgress(w.m, w.arb.docId, message, "info", t)]

onComplete(w, t) ==
  IF w.arb.isCompleted
  THEN w
  ELSE LET w1 == CallTerminal(w, completeOperation(w.m, w.arb.docId, t))
       IN Unmark([w1 EXCEPT !.arb.isCompleted = TRUE,
                            !.arb.completionTimer = FALSE,
                            !.arb.cleanupTimer = FALSE])

\* onError; first with a slip: the message it is given is not passed on
onErrorDropsMessage(w, error, t) ==
  IF w.arb.isCompleted
  THEN w
  ELSE LET w1 == CallTerminal(w, errorOperation(w.m, w.arb.docId, "Connection error", t))
           w2 == cleanup(w1)
       IN Unmark([w2 EXCEPT !.arb.isCompleted = TRUE,
                            !.arb.completionTimer = FALSE,
                            !.arb.cleanupTimer = FALSE])

\* then with a slip: the error is reported as a completion
onErrorCompletes(w, error, t) ==
  IF w.arb.isCompleted
  THEN w
  ELSE LET w1 == CallTerminal(w, completeOperation(w.m, w.arb.docId, t))
           w2 == cleanup(w1)
       IN Unmark([w2 EXCEPT !.arb.isCompleted = TRUE,
                            !.arb.completionTimer = FALSE,
                            !.arb.cleanupTimer = FALSE])

onError(w, error, t) ==
  IF w.arb.isCompleted
  THEN w
  ELSE LET message == IF error = Undefined THEN "Connection error" ELSE error
           w1 == CallTerminal(w, errorOperation(w.m, w.arb.docId, message, t))
           w2 == cleanup(w1)
       IN Unmark([w2 EXCEPT !.arb.isCompleted = TRUE,
                            !.arb.completionTimer = FALSE,
                            !.arb.cleanupTimer = FALSE])

\* onError called while subscribeToProgress has not returned: unsubscribe
\* is not initialized yet, reading it throws, and the exception leaves
\* handleClassifyDocument
onErrorBeforeReturn(w, error, t) ==
  LET w1 == CallTerminal(w, errorOperation(w.m, w.arb.docId, error, t))
  IN [w1 EXCEPT !.arb.isCompleted = TRUE, !.arb.pc = "crashed"]

(***************************************************************************)
(* subscribeToProgress: connect, the three handlers it puts on the         *)
(* EventSource, and the callback of the reconnection timer.                *)
(***************************************************************************)
\* a message event: its type after JSON.parse ("keepalive" for data that
\* starts with ':', "malformed" for data on which the handler throws) and,
\* for a progress frame, its message
Frame(type, message) == [type |-> type, message |-> message]

\* connect when new EventSource(url) does not throw; first with a slip:
\* isManuallyCloseD is not looked at
connectUnguarded(w, byTimer) ==
  [w EXCEPT !.sub.eventSource = "connecting", !.obs.pendingRetry = byTimer]

connect(w, byTimer) ==
  IF w.sub.isManuallyCloseD
  THEN w
  ELSE [w EXCEPT !.sub.eventSource = "connecting", !.obs.pendingRetry = byTimer]

\* onopen, first with a slip: reconnectAttempts is left as it is
onopenKeepsCount(w) == [w EXCEPT !.obs.pendingRetry = FALSE]

onopen(w) ==
  [w EXCEPT !.sub.reconnectAttempts = 0,
            !.obs.failedRetries = 0,
            !.obs.pendingRetry = FALSE]

\* onmessage; first with a slip: cleanup() is not called after onComplete
onmessageStaysOpen(w, frame, t) ==
  CASE frame.type = "progress" -> onProgress(Invoke(w), frame.message, t)
    [] frame.type = "complete" ->
         [onComplete(Invoke(Heard(w, "stream-complete")), t) EXCEPT !.obs.ended = TRUE]
    [] frame.type = "error" ->
         cleanup([onError(Invoke(Heard(w, "stream-error")), ServerErrorMessage, t)
                    EXCEPT !.obs.ended = TRUE])
    [] OTHER -> [w EXCEPT !.obs.skipped = TRUE]

\* then with a slip: a frame that does not parse closes the subscription
onmessageStrict(w, frame, t) ==
  CASE frame.type = "progress" -> onProgress(Invoke(w), frame.message, t)
    [] frame.type = "complete" ->
         cleanup([onComplete(Invoke(Heard(w, "stream-complete")), t)
                    EXCEPT !.obs.ended = TRUE])
    [] frame.type = "error" ->
         cleanup([onError(Invoke(Heard(w, "stream-error")), ServerErrorMessage, t)
                    EXCEPT !.obs.ended = TRUE])
    [] frame.type = "malformed" -> cleanup(w)
    [] OTHER -> [w EXCEPT !.obs.skipped = TRUE]

onmessage(w, frame, t) ==
  CASE frame.type = "progress" -> onProgress(Invoke(w), frame.message, t)
    [] frame.type = "complete" ->
         cleanup([onComplete(Invoke(Heard(w, "stream-complete")), t)
                    EXCEPT !.obs.ended = TRUE])
    [] frame.type = "error" ->
         cleanup([onError(Invoke(Heard(w, "stream-error")), ServerErrorMessage, t)
                    EXCEPT !.obs.ended = TRUE])
    [] OTHER -> [w EXCEPT !.obs.skipped = TRUE]

\* onerror; first with a slip: readyState is not looked at
onerrorAnyState(w, t) ==
  IF ~w.sub.isManuallyCloseD /\ w.sub.reconnectAttempts < maxReconnectAttempts
  THEN [w EXCEPT !.sub.reconnectAttempts = @ + 1,
                 !.sub.reconnectTimer = TRUE,
                 !.obs.retries = @ + 1]
  ELSE IF w.sub.reconnectAttempts >= maxReconnectAttempts
       THEN LET w1 == [Invoke(Heard(w, "stream-error")) EXCEPT !.obs.lost = @ + 1]
            IN cleanup(onError(w1, ConnectionLostMessage, t))
       ELSE w

\* then with a slip: after connection lost was reported one
\* more reconnection is scheduled
onerrorRetriesOn(w, t) ==
  IF w.sub.eventSource = "closed"
  THEN IF ~w.sub.isManuallyCloseD /\ w.sub.reconnectAttempts < maxReconnectAttempts
       THEN [w EXCEPT !.sub.reconnectAttempts = @ + 1,
                      !.sub.reconnectTimer = TRUE,
                      !.obs.retries = @ + 1]
       ELSE IF w.sub.reconnectAttempts >= maxReconnectAttempts
            THEN LET w1 == [Invoke(Heard(w, "stream-error")) EXCEPT !.obs.lost = @ + 1]
                 IN [cleanup(onError(w1, ConnectionLostMessage, t))
                       EXCEPT !.sub.reconnectTimer = TRUE]
            ELSE w
  ELSE w

\* then with a slip: the budget test admits one reconnection more
onerrorOneMore(w, t) ==
  IF w.sub.eventSource = "closed"
  THEN IF ~w.sub.isManuallyCloseD /\ w.sub.reconnectAttempts <= maxReconnectAttempts
       THEN [w EXCEPT !.sub.reconnectAttempts = @ + 1,
                      !.sub.reconnectTimer = TRUE,
                      !.obs.retries = @ + 1]
       ELSE IF w.sub.reconnectAttempts >= maxReconnectAttempts
            THEN LET w1 == [Invoke(Heard(w, "stream-error")) EXCEPT !.obs.lost = @ + 1]
                 IN cleanup(onError(w1, ConnectionLostMessage, t))
            ELSE w
  ELSE w

onerror(w, t) ==
  IF w.sub.eventSource = "closed"
  THEN IF ~w.sub.isManuallyCloseD /\ w.sub.reconnectAttempts < maxReconnectAttempts
       THEN [w EXCEPT !.sub.reconnectAttempts = @ + 1,
                      !.sub.reconnectTimer = TRUE,
                      !.obs.retries = @ + 1]
       ELSE IF w.sub.reconnectAttempts >= maxReconnectAttempts
            THEN LET w1 == [Invoke(Heard(w, "stream-error")) EXCEPT !.obs.lost = @ + 1]
                 IN cleanup(onError(w1, ConnectionLostMessage, t))
            ELSE w
  ELSE w

\* the callback of reconnectTimer: eventSource?.close(); connect()
reconnect(w) ==
  LET w1 == [w EXCEPT !.sub.reconnectTimer = FALSE,
                      !.sub.eventSource = IF @ = "null" THEN "null" ELSE "closed"]
  IN connect(w1, TRUE)

\* the page has just been opened: the documents of uploaded are listed, no
\* run of handleClassifyDocument has started; drops of the MaxDrops
\* transport failures are not explored
InitApp(uploaded, drops) ==
  /\ uploadedDocs = uploaded
  /\ classifyingDocs = {}
  /\ arbiter = [a \in Runs |-> NoArbiter]
  /\ subscription = [a \in Runs |-> NoSubscription]
  /\ observed = [a \in Runs |-> NothingObserved]
  /\ owner = [d \in Docs |-> 0]
  /\ nDrops = drops

(***************************************************************************)
(* The page is opened for the first time, at time 1, on an empty           *)
(* localStorage.                                                           *)
(***************************************************************************)
InitRegistry ==
  /\ now = 1
  /\ shortTicks = 0
  /\ longTicks = 0
  /\ nStarts = 0
  /\ nProgress = 0
  /\ nReloads = 0
  /\ InitApp(Docs, 0)
  /\ \E ok1, ok2, ok3 \in BOOLEAN :
       LET r == Mount(Absent, Absent, now, ok1, ok2, ok3, TRUE)
       IN /\ r.rejected <= MaxRejected
          /\ nRejected = r.rejected
          /\ activeOperations = r.active
          /\ history = r.history
          /\ lsActive = r.lsActive
          /\ lsHistory = r.lsHistory

(***************************************************************************)
(* The clock.                                                              *)
(***************************************************************************)
Tick ==
  /\ shortTicks < MaxShortTicks
  /\ now' = now + 1
  /\ shortTicks' = shortTicks + 1
  /\ UNCHANGED <<appVars, regVars, longTicks, countVars>>

WaitFiveMinutes ==
  /\ longTicks < MaxLongTicks
  /\ now' = now + fiveMinutes
  /\ longTicks' = longTicks + 1
  /\ UNCHANGED <<appVars, regVars, shortTicks, countVars>>

(***************************************************************************)
(* The registry's operations, each called on its own by a task.            *)
(***************************************************************************)
StartOperation ==
  \E d \in Docs, okA \in BOOLEAN :
    /\ nStarts < MaxStarts
    /\ nStarts' = nStarts + 1
    /\ Render(startOperation(Current, d, FilenameOf(d), now), okA, TRUE)
    /\ UNCHANGED <<appVars, clockVars, nProgress, nReloads>>

AddProgress ==
  \E d \in Docs, okA \in BOOLEAN :
    /\ nProgress < MaxProgress
    /\ nProgress < Len(Messages)
    /\ nProgress' = nProgress + 1
    /\ Render(addProgress(Current, d, Messages[nProgress + 1], "info", now), okA, TRUE)
    /\ UNCHANGED <<appVars, clockVars, nStarts, nReloads>>

CompleteOperation ==
  \E d \in Docs, okA, okH \in BOOLEAN :
    /\ Render(completeOperation(Current, d, now), okA, okH)
    /\ UNCHANGED <<appVars, clockVars, nStarts, nProgress, nReloads>>

ErrorOperation ==
  \E d \in Docs, e \in ErrorMessages, okA, okH \in BOOLEAN :
    /\ Render(errorOperation(Current, d, e, now), okA, okH)
    /\ UNCHANGED <<appVars, clockVars, nStarts, nProgress, nReloads>>

RemoveOperation ==
  \E d \in Docs, okA \in BOOLEAN :
    /\ Render(removeOperation(Current, d), okA, TRUE)
    /\ UNCHANGED <<appVars, clockVars, nStarts, nProgress, nReloads>>

\* clearHistory: setHistory([]), then both keys are removed; the render
\* that follows rewrites the history snapshot only
ClearHistory ==
  \E okH \in BOOLEAN :
    /\ nRejected + BoolToNat(~okH) <= MaxRejected
    /\ nRejected' = nRejected + BoolToNat(~okH)
    /\ history' = <<>>
    /\ lsHistory' = SetItem(Absent, <<>>, okH)
    /\ lsActive' = Absent
    /\ UNCHANGED <<appVars, activeOperations, clockVars, nStarts, nProgress, nReloads>>

\* the page is reloaded: the in-memory state is lost and ProgressProvider
\* mounts on what localStorage holds
Reload ==
  \E ok1, ok2, ok3, ok4 \in BOOLEAN :
    LET r == Mount(lsActive, lsHistory, now, ok1, ok2, ok3, ok4)
    IN /\ nReloads < MaxReloads
       /\ nReloads' = nReloads + 1
       /\ r.wrote4 \/ ok4
       /\ nRejected + r.rejected <= MaxRejected
       /\ nRejected' = nRejected + r.rejected
       /\ activeOperations' = r.active
       /\ history' = r.history
       /\ lsActive' = r.lsActive
       /\ lsHistory' = r.lsHistory
       /\ UNCHANGED <<appVars, clockVars, nStarts, nProgress>>

NextRegistry ==
  \/ Tick
  \/ WaitFiveMinutes
  \/ StartOperation
  \/ AddProgress
  \/ CompleteOperation
  \/ ErrorOperation
  \/ RemoveOperation
  \/ ClearHistory
  \/ Reload

SpecRegistry == InitRegistry /\ [][NextRegistry]_vars

\* the registry without clearHistory and without reloads: an entry leaves
\* the active set by a terminal call or by removeOperation only
NextRemoval ==
  \/ Tick
  \/ WaitFiveMinutes
  \/ StartOperation
  \/ AddProgress
  \/ CompleteOperation
  \/ ErrorOperation
  \/ RemoveOperation

SpecRemoval == InitRegistry /\ [][NextRemoval]_vars

(***************************************************************************)
(* The registry at capacity.  The page is opened on what earlier sessions  *)
(* (at times 1..MAX_HISTORY) left in localStorage: a history filled to     *)
(* MAX_HISTORY, and the active snapshot of a Classify All over             *)
(* MAX_HISTORY + 1 uploaded documents, 1..MAX_HISTORY + 1, that the last   *)
(* session left behind.  localStorage accepts every write here: rejected   *)
(* writes are explored by SpecRegistry.                                    *)
(***************************************************************************)
FullHistory ==
  [i \in 1..MAX_HISTORY |->
     [documentId  |-> MAX_HISTORY + 1 + i,
      filename    |-> Undefined,
      status      |-> "completed",
      steps       |-> <<>>,
      startedAt   |-> MAX_HISTORY + 1 - i,
      completedAt |-> MAX_HISTORY + 1 - i,
      error       |-> Undefined]]

AbandonedBatch ==
  [i \in 1..(MAX_HISTORY + 1) |->
     [documentId  |-> i,
      filename    |-> FilenameOf(i),
      status      |-> "active",
      steps       |-> <<>>,
      startedAt   |-> MAX_HISTORY,
      completedAt |-> NoTime,
      error       |-> Undefined]]

InitCapacity ==
  /\ now = MAX_HISTORY + 1
  /\ shortTicks = 0
  /\ longTicks = 0
  /\ nStarts = 0
  /\ nProgress = 0
  /\ nReloads = 0
  /\ nRejected = MaxRejected
  /\ InitApp(Docs, 0)
  /\ LET r == Mount(Stored(AbandonedBatch), Stored(FullHistory), now,
                    TRUE, TRUE, TRUE, TRUE)
     IN /\ activeOperations = r.active
        /\ history = r.history
        /\ lsActive = r.lsActive
        /\ lsHistory = r.lsHistory

NextCapacity ==
  \/ Tick
  \/ WaitFiveMinutes
  \/ CompleteOperation
  \/ ErrorOperation
  \/ Reload

SpecCapacity == InitCapacity /\ [][NextCapacity]_vars

(***************************************************************************)
(* The tasks of handleClassifyDocument after it has subscribed.            *)
(***************************************************************************)
\* the try block once the request has succeeded: both timers are set
tryBlock(w) ==
  [Heard(w, "request-success") EXCEPT !.arb.pc = "resolved",
            !.arb.completionTimer = TRUE,
            !.arb.cleanupTimer = TRUE]

\* the catch block, here with a slip: the failure is not reported to the
\* registry
catchBlockSilent(w, message, t) ==
  LET w2 == cleanup([Heard(w, "request-failure") EXCEPT !.arb.isCompleted = TRUE])
  IN Unmark([w2 EXCEPT !.arb.pc = "failed",
                       !.arb.completionTimer = FALSE,
                       !.arb.cleanupTimer = FALSE])

catchBlock(w, message, t) ==
  LET w0 == Heard(w, "request-failure")
      w1 == IF w0.arb.isCompleted
            THEN w0
            ELSE [CallTerminal(w0, errorOperation(w0.m, w0.arb.docId, message, t))
                    EXCEPT !.arb.isCompleted = TRUE]
      w2 == cleanup(w1)
  IN Unmark([w2 EXCEPT !.arb.pc = "failed",
                       !.arb.completionTimer = FALSE,
                       !.arb.cleanupTimer = FALSE])

\* the callback of completionTimer (set for 2 seconds), here with a slip:
\* isCompleted is not tested
completionTimerCallbackUnguarded(w, t) ==
  LET w0 == [w EXCEPT !.arb.completionTimer = FALSE]
      w1 == CallTerminal(w0, completeOperation(w0.m, w0.arb.docId, t))
  IN Unmark(cleanup([w1 EXCEPT !.arb.isCompleted = TRUE]))

completionTimerCallback(w, t) ==
  LET w0 == [w EXCEPT !.arb.completionTimer = FALSE]
  IN IF w0.arb.isCompleted
     THEN w0
     ELSE LET w1 == CallTerminal(w0, completeOperation(w0.m, w0.arb.docId, t))
          IN Unmark(cleanup([w1 EXCEPT !.arb.isCompleted = TRUE]))

\* the callback of cleanupTimer (set for 5 seconds), here with a slip: it
\* only cleans up
cleanupTimerCallbackNoCompletion(w, t) ==
  LET w0 == [w EXCEPT !.arb.cleanupTimer = FALSE]
      w2 == cleanup(w0)
  IN Unmark([w2 EXCEPT !.arb.completionTimer = FALSE])

cleanupTimerCallback(w, t) ==
  LET w0 == [w EXCEPT !.arb.cleanupTimer = FALSE]
      w1 == IF w0.arb.isCompleted
            THEN w0
            ELSE [CallTerminal(w0, completeOperation(w0.m, w0.arb.docId, t))
                    EXCEPT !.arb.isCompleted = TRUE]
      w2 == cleanup(w1)
  IN Unmark([w2 EXCEPT !.arb.completionTimer = FALSE])

(***************************************************************************)
(* The application: documents are classified, their requests resolve,      *)
(* their timers fire, their transports open, deliver, stall and fail.      *)
(***************************************************************************)
World(a) ==
  [m |-> Current, arb |-> arbiter[a], sub |-> subscription[a],
   obs |-> observed[a], cd |-> classifyingDocs]

\* the task of run a ends in w; the render that follows persists
Apply(a, w, okActive, okHistory) ==
  /\ Render(w.m, okActive, okHistory)
  /\ arbiter' = [arbiter EXCEPT ![a] = w.arb]
  /\ subscription' = [subscription EXCEPT ![a] = w.sub]
  /\ observed' = [observed EXCEPT ![a] = w.obs]
  /\ classifyingDocs' = w.cd

\* "Classify Now" on an uploaded document that is not marked as being
\* classified; "Classify All" is this task for each uploaded document in
\* turn.  throws: new EventSource(url) throws
ClassifyDocument ==
  \E d \in uploadedDocs \ classifyingDocs, throws, okA, okH \in BOOLEAN :
    LET a == nStarts + 1
        w0 == [m   |-> startOperation(Current, d, FilenameOf(d), now),
               arb |-> [NoArbiter EXCEPT !.docId = d, !.pc = "awaiting"],
               sub |-> NoSubscription,
               obs |-> NothingObserved,
               cd  |-> classifyingDocs \cup {d}]
        w == IF throws
             THEN onErrorBeforeReturn(Invoke(Heard(w0, "stream-error")),
                                      ConnectFailedMessage, now)
             ELSE connect(w0, FALSE)
    IN /\ nStarts < MaxStarts
       /\ nStarts' = nStarts + 1
       /\ owner' = [owner EXCEPT ![d] = a]
       /\ Apply(a, w, okA, okH)
       /\ UNCHANGED <<clockVars, nProgress, nReloads, uploadedDocs, nDrops>>

RequestSuccess(a) ==
  /\ arbiter[a].pc = "awaiting"
  /\ uploadedDocs' = uploadedDocs \ {arbiter[a].docId}
  /\ Apply(a, tryBlock(World(a)), TRUE, TRUE)
  /\ UNCHANGED <<clockVars, nStarts, nProgress, nReloads, owner, nDrops>>

RequestFailure(a) ==
  \E okA, okH \in BOOLEAN :
    /\ arbiter[a].pc = "awaiting"
    /\ Apply(a, catchBlock(World(a), RequestFailedMessage, now), okA, okH)
    /\ UNCHANGED <<clockVars, nStarts, nProgress, nReloads, uploadedDocs, owner, nDrops>>

CompletionTimer(a) ==
  \E okA, okH \in BOOLEAN :
    /\ arbiter[a].completionTimer
    /\ Apply(a, completionTimerCallback(World(a), now), okA, okH)
    /\ UNCHANGED <<clockVars, nStarts, nProgress, nReloads, uploadedDocs, owner, nDrops>>

CleanupTimer(a) ==
  \E okA, okH \in BOOLEAN :
    /\ arbiter[a].cleanupTimer
    /\ Apply(a, cleanupTimerCallback(World(a), now), okA, okH)
    /\ UNCHANGED <<clockVars, nStarts, nProgress, nReloads, uploadedDocs, owner, nDrops>>

\* "Cancel and delete" on a document that is being classified; deleted:
\* the backend deleted it, otherwise the request failed
HandleDeleteResult ==
  \E d \in uploadedDocs \cap classifyingDocs, deleted \in BOOLEAN :
    /\ classifyingDocs' = classifyingDocs \ {d}
    /\ uploadedDocs' = IF deleted THEN uploadedDocs \ {d} ELSE uploadedDocs
    /\ UNCHANGED <<regVars, clockVars, countVars, arbiter, subscription, owner,
                   observed, nDrops>>

(***************************************************************************)
(* The events of a subscription's transport.                               *)
(***************************************************************************)
FrameTypes == {"keepalive", "connected", "progress", "complete", "error", "malformed"}

\* the open event
EsOpen(a) ==
  /\ subscription[a].eventSource = "connecting"
  /\ Apply(a, onopen([World(a) EXCEPT !.sub.eventSource = "open"]), TRUE, TRUE)
  /\ UNCHANGED <<clockVars, nStarts, nProgress, nReloads, uploadedDocs, owner, nDrops>>

\* the frame ty is handled by onmessage; the k-th progress frame of the
\* session carries Messages[k]
Deliver(a, w, ty, okA, okH) ==
  LET isProgress == ty = "progress"
      message == IF isProgress /\ nProgress < Len(Messages)
                 THEN Messages[nProgress + 1]
                 ELSE Undefined
  IN /\ isProgress => nProgress < MaxProgress /\ nProgress < Len(Messages)
     /\ nProgress' = nProgress + BoolToNat(isProgress)
     /\ Apply(a, onmessage(w, Frame(ty, message), now), okA, okH)

\* a message event
EsMessage(a) ==
  \E ty \in FrameTypes, okA, okH \in BOOLEAN :
    /\ subscription[a].eventSource = "open"
    /\ Deliver(a, World(a), ty, okA, okH)
    /\ UNCHANGED <<clockVars, nStarts, nReloads, uploadedDocs, owner, nDrops>>

\* an error event of a transport the browser re-establishes by itself:
\* readyState is CONNECTING
EsRetrying(a) ==
  /\ subscription[a].eventSource = "open"
  /\ Apply(a, onerror([World(a) EXCEPT !.sub.eventSource = "connecting"], now), TRUE, TRUE)
  /\ UNCHANGED <<clockVars, nStarts, nProgress, nReloads, uploadedDocs, owner, nDrops>>

\* an error event of a transport that failed: readyState is CLOSED
EsClosed(a) ==
  \E okA, okH \in BOOLEAN :
    LET w0 == [World(a) EXCEPT
                 !.sub.eventSource = "closed",
                 !.obs.failedRetries = @ + BoolToNat(observed[a].pendingRetry),
                 !.obs.pendingRetry = FALSE]
    IN /\ subscription[a].eventSource \in {"connecting", "open"}
       /\ nDrops < MaxDrops
       /\ nDrops' = nDrops + 1
       /\ Apply(a, onerror(w0, now), okA, okH)
       /\ UNCHANGED <<clockVars, nStarts, nProgress, nReloads, uploadedDocs, owner>>

\* reconnectTimer fires
ReconnectTimer(a) ==
  /\ subscription[a].reconnectTimer
  /\ Apply(a, reconnect(World(a)), TRUE, TRUE)
  /\ UNCHANGED <<clockVars, nStarts, nProgress, nReloads, uploadedDocs, owner, nDrops>>

\* a message event of a transport on which close() was called already
StrayMessage(a) ==
  \E ty \in FrameTypes, okA, okH \in BOOLEAN :
    /\ subscription[a].inFlight > 0
    /\ Deliver(a, [World(a) EXCEPT !.sub.inFlight = @ - 1], ty, okA, okH)
    /\ UNCHANGED <<clockVars, nStarts, nReloads, uploadedDocs, owner, nDrops>>

\* an error event of such a transport
StrayError(a) ==
  /\ subscription[a].inFlight > 0
  /\ Apply(a, onerror([World(a) EXCEPT !.sub.inFlight = @ - 1], now), TRUE, TRUE)
  /\ UNCHANGED <<clockVars, nStarts, nProgress, nReloads, uploadedDocs, owner, nDrops>>

(***************************************************************************)
(* One classification.  The page is opened on an empty localStorage that   *)
(* accepts every write, and stays open; handleClassifyDocument runs once   *)
(* (the run is numbered MaxStarts), and its transport may do anything.     *)
(* Rejected writes and reloads are explored by SpecRegistry.               *)
(***************************************************************************)
InitPage(uploaded, starts, progress, drops) ==
  /\ now = 1
  /\ shortTicks = 0
  /\ longTicks = 0
  /\ nStarts = starts
  /\ nProgress = progress
  /\ nReloads = 0
  /\ nRejected = MaxRejected
  /\ InitApp(uploaded, drops)
  /\ LET r == Mount(Absent, Absent, now, TRUE, TRUE, TRUE, TRUE)
     IN /\ activeOperations = r.active
        /\ history = r.history
        /\ lsActive = r.lsActive
        /\ lsHistory = r.lsHistory

InitClassify == InitPage(Docs, MaxStarts - 1, 0, 0)

RequestStep == \E a \in Runs : RequestSuccess(a) \/ RequestFailure(a)

ArbiterTimerStep == \E a \in Runs : CompletionTimer(a) \/ CleanupTimer(a)

ReconnectStep == \E a \in Runs : ReconnectTimer(a)

StreamStep == \E a \in Runs : EsOpen(a) \/ EsMessage(a)

FailureStep == \E a \in Runs : EsRetrying(a) \/ EsClosed(a)

StrayStep == \E a \in Runs : StrayMessage(a) \/ StrayError(a)

NextClassify ==
  \/ Tick
  \/ ClassifyDocument
  \/ HandleDeleteResult
  \/ RequestStep
  \/ ArbiterTimerStep
  \/ ReconnectStep
  \/ StreamStep
  \/ FailureStep
  \/ StrayStep

SpecClassify == InitClassify /\ [][NextClassify]_vars

(***************************************************************************)
(* One classification of one document, up to the end of its run: the       *)
(* transport opens, delivers, stalls, fails and is reconnected, the        *)
(* request resolves, the timers fire.                                      *)
(***************************************************************************)
InitResolve == InitPage({1}, MaxStarts - 1, MaxProgress - 1, 0)

NextResolve ==
  \/ ClassifyDocument
  \/ RequestStep
  \/ ArbiterTimerStep
  \/ ReconnectStep
  \/ StreamStep
  \/ FailureStep

SpecResolve == InitResolve /\ [][NextResolve]_vars

\* completionTimer and cleanupTimer, once set, fire unless they are cleared
TimersFire == WF_vars(ArbiterTimerStep)

\* a request that was sent resolves
RequestsResolve == WF_vars(RequestStep)

FairResolve == SpecResolve /\ TimersFire

(***************************************************************************)
(* Classifications that overlap.  handleClassifyDocument runs up to        *)
(* MaxStarts times on one document, also while an earlier run has not      *)
(* ended (its request is pending, or it was cancelled and the deletion     *)
(* failed), in the same millisecond or a later one; the transports open    *)
(* and deliver connected, complete and error frames and do not fail.       *)
(***************************************************************************)
InitOverlap == InitPage({1}, 0, MaxProgress, MaxDrops)

NextOverlap ==
  \/ Tick
  \/ ClassifyDocument
  \/ HandleDeleteResult
  \/ RequestStep
  \/ ArbiterTimerStep
  \/ StreamStep

SpecOverlap == InitOverlap /\ [][NextOverlap]_vars

FairOverlap == SpecOverlap /\ TimersFire /\ RequestsResolve

(***************************************************************************)
(* Two classifications on one page, one after the other or at the same     *)
(* time, of one document or of two; the transports do not fail.            *)
(***************************************************************************)
InitPair == InitPage(Docs, 0, MaxProgress - 1, MaxDrops)

NextPair ==
  \/ ClassifyDocument
  \/ RequestStep
  \/ ArbiterTimerStep
  \/ StreamStep

SpecPair == InitPair /\ [][NextPair]_vars

(***************************************************************************)
(* The page is closed and opened again while a classification may be       *)
(* running.  The closures of handleClassifyDocument, their timers and      *)
(* their subscriptions end with the page; the new page has the snapshots   *)
(* of localStorage and an empty list of uploaded documents.                *)
(***************************************************************************)
Restart ==
  LET r == Mount(lsActive, lsHistory, now, TRUE, TRUE, TRUE, TRUE)
  IN /\ nReloads < MaxReloads
     /\ nReloads' = nReloads + 1
     /\ activeOperations' = r.active
     /\ history' = r.history
     /\ lsActive' = r.lsActive
     /\ lsHistory' = r.lsHistory
     /\ uploadedDocs' = {}
     /\ classifyingDocs' = {}
     /\ arbiter' = [a \in Runs |-> NoArbiter]
     /\ subscription' = [a \in Runs |-> NoSubscription]
     /\ observed' = [a \in Runs |-> NothingObserved]
     /\ owner' = [d \in Docs |-> 0]
     /\ UNCHANGED <<clockVars, nStarts, nProgress, nRejected, nDrops>>

InitRestart == InitPage({1}, MaxStarts - 1, MaxProgress - 1, MaxDrops)

NextRestart ==
  \/ Tick
  \/ WaitFiveMinutes
  \/ ClassifyDocument
  \/ RequestStep
  \/ ArbiterTimerStep
  \/ StreamStep
  \/ Restart

SpecRestart == InitRestart /\ [][NextRestart]_vars

\* time passes
TimePasses == WF_vars(Tick \/ WaitFiveMinutes)

FairRestart == SpecRestart /\ TimersFire /\ RequestsResolve /\ TimePasses

(***************************************************************************)
(* Claims about the registry.                                              *)
(***************************************************************************)
\* the positions of history that hold an entry of document d
HistoryEntriesOf(d) == {i \in 1..Len(history) : history[i].documentId = d}

InHistory(d) == HistoryEntriesOf(d) # {}

TimesInHistory(d) == Cardinality(HistoryEntriesOf(d))

\* C2: in every reachable state every job id is in the active set or at
\* most once in history, never both and never twice in history.
C2_ActiveXorHistory ==
  \A d \in Docs :
    /\ ~(MapHas(activeOperations, d) /\ InHistory(d))
    /\ TimesInHistory(d) <= 1

\* C3: in every reachable state no two entries of history have the same
\* (documentId, startedAt) pair.
C3_NoDuplicatePair ==
  \A i, j \in 1..Len(history) :
    (history[i].documentId = history[j].documentId
       /\ history[i].startedAt = history[j].startedAt) => i = j

\* the React state as a later task finds it after the updates m
After(m) == Mem(m.active, m.history)

\* a terminal call for d at time t on the state m changes nothing
TerminalCallIsNoOp(m, d, t) ==
  /\ completeOperation(m, d, t) = m
  /\ \A e \in ErrorMessages : errorOperation(m, d, e, t) = m

\* C4: completeOperation and errorOperation are idempotent: in every
\* reachable state and for every id, after a first terminal call a second
\* terminal call for the same id (at the same or a later time) changes
\* neither the active set nor history, and causes no render.
C4_TerminalIdempotent ==
  \A d \in Docs, t \in {now, now + 1} :
    /\ TerminalCallIsNoOp(After(completeOperation(Current, d, now)), d, t)
    /\ \A e \in ErrorMessages :
         TerminalCallIsNoOp(After(errorOperation(Current, d, e, now)), d, t)

\* a first terminal call has moved an operation to history and the second
\* call finds the registry in that state
C4_Witness ==
  \E d \in Docs :
    /\ ~MapHas(activeOperations, d)
    /\ \E i \in HistoryEntriesOf(d) : history[i].status = "completed"
    /\ \E i \in HistoryEntriesOf(d) : history[i].status = "error"
    /\ TerminalCallIsNoOp(Current, d, now)

\* a step of Reload
IsReload == nReloads' # nReloads

\* the stale entries of the persisted active snapshot at load time, as the
\* mount effect converts them
Interrupted(op, t) ==
  [op EXCEPT !.status = "error", !.completedAt = t, !.error = InterruptedMessage]

StaleAtLoad == SelectSeq(LoadActive(lsActive), LAMBDA op : IsStale(op, now))

\* a step that inserts one finished operation at the front of history and
\* drops entries, if any, from the tail only
InsertsOneAtFront ==
  /\ Len(history') >= 1
  /\ Len(history') <= MAX_HISTORY
  /\ history' = Slice(<<history'[1]>> \o history, MAX_HISTORY)

\* a load that puts every converted stale entry in front of the loaded
\* history and drops entries, if any, from the tail of the loaded history
LoadKeepsInserted ==
  LET inserted == [i \in 1..Len(StaleAtLoad) |-> Interrupted(StaleAtLoad[i], now)]
  IN /\ Len(inserted) <= MAX_HISTORY
     /\ history' = inserted \o Slice(LoadHistory(lsHistory), MAX_HISTORY - Len(inserted))

\* C5: history never holds more than MAX_HISTORY entries, and a terminal
\* transition or a stale conversion that inserts into a full history drops
\* entries from the tail only, never a newly inserted one.
C5_CapEvictsOldest ==
  /\ [](Len(history) <= MAX_HISTORY)
  /\ [][IF IsReload
        THEN LoadKeepsInserted
        ELSE history' = history \/ history' = <<>> \/ InsertsOneAtFront]_vars

\* C8: on load every persisted active entry older than five minutes is
\* afterwards absent from the active set and exactly once in history, as
\* an error entry with the interrupted message, completedAt the load time
\* and its other fields unchanged, however many stale entries there are.
C8_StaleToHistory ==
  [][IsReload =>
       \A i \in 1..Len(StaleAtLoad) :
         /\ ~MapHas(activeOperations', StaleAtLoad[i].documentId)
         /\ Cardinality({k \in 1..Len(history') :
                           history'[k] = Interrupted(StaleAtLoad[i], now)}) = 1]_vars

(***************************************************************************)
(* Claims about the arbiter and the subscription.                          *)
(***************************************************************************)
\* run a has started and the active entry of its document is the one its
\* startOperation made
OwnEntryActive(a) ==
  /\ arbiter[a].pc # "idle"
  /\ MapHas(activeOperations, arbiter[a].docId)
  /\ owner[arbiter[a].docId] = a

\* C1: whatever the order of the stream's complete and error callbacks, the
\* request's success with its two timers and the request's failure, a run
\* of handleClassifyDocument calls completeOperation or errorOperation at
\* most once in total, and at most one history entry is made for it.
C1_OneTerminalCall ==
  \A a \in Runs : /\ observed[a].terminalCalls <= 1
                  /\ observed[a].historyAdds <= 1

\* the stream completed a run, then its request succeeded and both timers
\* fired: one call, one entry, and cleanup by the frame and by the timer
C1_Witness ==
  \E a \in Runs :
    /\ arbiter[a].pc = "resolved"
    /\ ~arbiter[a].completionTimer
    /\ ~arbiter[a].cleanupTimer
    /\ observed[a].terminalCalls = 1
    /\ observed[a].historyAdds = 1
    /\ observed[a].cleanups >= 2
    /\ \E i \in 1..Len(history) : /\ history[i].documentId = arbiter[a].docId
                                  /\ history[i].status = "completed"

\* C6 as stated: over the whole life of a subscription at most 3
\* reconnections are scheduled, and connection lost is reported at most
\* once, and only when the 3rd of them has failed.
C6_ThreeRetriesPerSubscription ==
  \A a \in Runs : /\ observed[a].retries <= maxReconnectAttempts
                  /\ observed[a].lost <= 1
                  /\ observed[a].lost = 1 => observed[a].retries = maxReconnectAttempts

\* C6, amended: since the last open of its transport (or since it was
\* made) a subscription schedules at most 3 reconnections; connection lost
\* is reported at most once, and exactly when the 3rd reconnection since
\* the last open has failed.
C6_ThreeRetriesPerOutage ==
  \A a \in Runs : /\ subscription[a].reconnectAttempts <= maxReconnectAttempts
                  /\ observed[a].failedRetries <= subscription[a].reconnectAttempts
                  /\ observed[a].lost <= 1
                  /\ observed[a].lost = 1 <=> observed[a].failedRetries = maxReconnectAttempts

\* connection lost was reported after a reconnection had opened and the
\* transport had dropped again: more than 3 reconnections in all
C6_Witness ==
  \E a \in Runs : /\ observed[a].lost = 1
                  /\ observed[a].retries > maxReconnectAttempts
                  /\ observed[a].failedRetries = maxReconnectAttempts

\* C7: once a complete or error frame was delivered to its callback, or
\* cleanup() was called, the subscription invokes none of its callbacks
\* again, also when events of the closed transport are still delivered.
C7_NoCallbackAfterEnd == \A a \in Runs : ~observed[a].late

\* the request of run a resolves in this step with a failure
RequestFails(a) == arbiter[a].pc = "awaiting" /\ arbiter'[a].pc = "failed"

\* C9: once the request of a run has resolved, the entry of the run leaves
\* the active set: with the failure itself, and on success at the latest
\* when cleanupTimer fires, whatever the transport does, provided the
\* timers that are set fire.
C9_ResolvedLeavesActive ==
  /\ [][\A a \in Runs : RequestFails(a) => ~OwnEntryActive(a)']_vars
  /\ [][\A a \in Runs : arbiter[a].cleanupTimer /\ ~arbiter'[a].cleanupTimer
                          => ~OwnEntryActive(a)']_vars
  /\ \A a \in Runs : arbiter[a].pc \in {"resolved", "failed"} ~> ~OwnEntryActive(a)

\* the request of a run succeeded while its transport was waiting to
\* reconnect and its entry was active
C9_Witness ==
  \E a \in Runs : /\ arbiter[a].pc = "resolved"
                  /\ arbiter[a].cleanupTimer
                  /\ subscription[a].reconnectTimer
                  /\ OwnEntryActive(a)

\* history holds an entry of document d that is completed, or is an error
\* with a message
Reported(d) ==
  \E i \in 1..Len(history) :
    /\ history[i].documentId = d
    /\ \/ history[i].status = "completed"
       \/ history[i].status = "error" /\ history[i].error # Undefined

\* C10: every document that startOperation made active leaves the active
\* set and is then in history as completed or as an error with a message,
\* provided timers fire and requests resolve.
C10_EveryJobEnds ==
  \A d \in Docs : MapHas(activeOperations, d) ~> (~MapHas(activeOperations, d) /\ Reported(d))

\* a document is active again for a second run while the request of its
\* first run is still pending
C10_Witness ==
  \E a, b \in Runs :
    /\ a # b
    /\ arbiter[a].pc = "awaiting"
    /\ arbiter[b].pc = "awaiting"
    /\ arbiter[a].docId = arbiter[b].docId
    /\ MapHas(activeOperations, arbiter[a].docId)

\* the status of every history entry of the document of run a is st, and
\* there is such an entry
RunReportedAs(a, st) ==
  /\ InHistory(arbiter[a].docId)
  /\ \A i \in HistoryEntriesOf(arbiter[a].docId) : history[i].status = st

GraceTimerSettles(a) ==
  /\ arbiter[a].completionTimer
  /\ ~arbiter[a].isCompleted
  /\ arbiter'[a].isCompleted
  /\ arbiter'[a].cleanupTimer

\* the request of run a succeeded before the stream gave any signal, and
\* the run is settled as completed
CompletedAfterSuccess(a) ==
  /\ observed[a].signal = "request-success"
  /\ arbiter[a].isCompleted
  /\ RunReportedAs(a, "completed")

\* C12: when the request has succeeded and the stream does not complete,
\* completionTimer completes the entry, and from then on, cleanupTimer
\* included, cleanup() has been called exactly once for the run.
C12_GraceCompletesCleanupOnce ==
  /\ [][\A a \in Runs : GraceTimerSettles(a)
          => RunReportedAs(a, "completed")' /\ observed'[a].cleanups = 1]_vars
  /\ [](\A a \in Runs : CompletedAfterSuccess(a) => observed[a].cleanups = 1)

\* C13: a settled run (isCompleted) has neither completionTimer nor
\* cleanupTimer pending, whether it was settled by the stream before the
\* request resolved, inside the grace window, or by completionTimer.
C13_SettledHasNoTimer ==
  \A a \in Runs :
    arbiter[a].isCompleted
      => ~arbiter[a].completionTimer /\ ~arbiter[a].cleanupTimer

\* the subscription of run a is closed for good: cleanup() has run, no
\* transport is held and no reconnection is scheduled
TransportClosed(a) ==
  /\ subscription[a].isManuallyCloseD
  /\ subscription[a].eventSource = "null"
  /\ ~subscription[a].reconnectTimer

\* C14: the step in which cleanupTimer fires calls cleanup(), whether the
\* run was settled or not, and leaves the entry of the run inactive and the
\* transport closed; so it stays once the request has succeeded and
\* cleanupTimer is no longer pending.
C14_HardTimerCleansUp ==
  /\ [][\A a \in Runs : CleanupTimer(a)
          => /\ observed'[a].cleanups = observed[a].cleanups + 1
             /\ ~OwnEntryActive(a)'
             /\ TransportClosed(a)']_vars
  /\ [](\A a \in Runs : arbiter[a].pc = "resolved" /\ ~arbiter[a].cleanupTimer
          => ~OwnEntryActive(a) /\ TransportClosed(a))

\* cleanupTimer fired on a run that completionTimer had settled: the
\* second cleanup() of the run
C14_Witness ==
  \E a \in Runs :
    /\ observed[a].signal = "request-success"
    /\ arbiter[a].pc = "resolved"
    /\ ~arbiter[a].completionTimer /\ ~arbiter[a].cleanupTimer
    /\ observed[a].terminalCalls = 1
    /\ observed[a].cleanups = 2
    /\ observed[a].lost = 0
    /\ TransportClosed(a)

(***************************************************************************)
(* Claims about the registry's contract.                                   *)
(***************************************************************************)
\* the times of four calls made one after the other from now on
CallTimes ==
  {ts \in [1..4 -> {now, now + 1}] : \A i \in 1..3 : ts[i] <= ts[i + 1]}

\* startOperation(d); addProgress(d, m1); addProgress(d, m2);
\* completeOperation(d), called at the times ts on the present state
OneLifetime(d, ts) ==
  LET started == After(startOperation(Current, d, FilenameOf(d), ts[1]))
      one == After(addProgress(started, d, Messages[1], "info", ts[2]))
      two == After(addProgress(one, d, Messages[2], "info", ts[3]))
  IN completeOperation(two, d, ts[4])

\* the entry that lifetime is to leave in history
Lived(d, ts) ==
  [documentId  |-> d,
   filename    |-> FilenameOf(d),
   status      |-> "completed",
   steps       |-> <<NewStep(d, Messages[1], "info", ts[2]),
                     NewStep(d, Messages[2], "info", ts[3])>>,
   startedAt   |-> ts[1],
   completedAt |-> ts[4],
   error       |-> Undefined]

LeavesLived(d, ts) ==
  /\ ~MapHas(OneLifetime(d, ts).active, d)
  /\ Len(OneLifetime(d, ts).history) >= 1
  /\ OneLifetime(d, ts).history[1] = Lived(d, ts)

\* one addProgress on the active entry of d adds exactly one step, at the end
AddsOneStep(d) ==
  LET pushed == addProgress(Current, d, Messages[1], "info", now)
  IN MapGet(pushed.active, d).steps
       = Append(MapGet(activeOperations, d).steps, NewStep(d, Messages[1], "info", now))

\* C15: from every state in which d is not active,
\* startOperation(d); addStep(d, m1); addStep(d, m2); completeOperation(d)
\* leaves d inactive and history[0] the completed entry of d with exactly
\* the steps m1, m2 in that order; each addStep on an active entry adds
\* exactly one step.
C15_LifetimeRecorded ==
  \A d \in Docs :
    /\ ~MapHas(activeOperations, d) => \A ts \in CallTimes : LeavesLived(d, ts)
    /\ MapHas(activeOperations, d) => AddsOneStep(d)

\* C16: addStep for an id without an active entry (never started, already
\* in history, or removed) is a silent no-op: it creates no active entry
\* and leaves the active set and history, with the entries of that id and
\* their steps, as they were.
C16_LateStepIsNoOp ==
  /\ [](\A d \in Docs, i \in 1..Len(Messages), t \in {now, now + 1} :
          ~MapHas(activeOperations, d) =>
            /\ addProgress(Current, d, Messages[i], "info", t).active = activeOperations
            /\ addProgress(Current, d, Messages[i], "info", t).history = history)
  /\ [][nProgress' # nProgress =>
          /\ history' = history
          /\ \A d \in Docs : ~MapHas(activeOperations, d)
                               => ~MapHas(activeOperations', d)]_vars

\* addProgress was called twice and no entry has a step: the calls were
\* for an id that was in history, or had no entry at all
C16_Witness ==
  /\ nProgress = MaxProgress
  /\ nStarts = 1
  /\ nReloads = 0
  /\ nRejected = 0
  /\ \A i \in 1..Len(activeOperations) : activeOperations[i].steps = <<>>
  /\ \E d \in Docs :
       /\ ~MapHas(activeOperations, d)
       /\ HistoryEntriesOf(d) # {}
       /\ \A i \in HistoryEntriesOf(d) : history[i].steps = <<>>

\* the active entry of d as a terminal call at time t is to leave it at
\* the front of history
Finished(d, status, error, t) ==
  [MapGet(activeOperations, d) EXCEPT !.status = status,
                                      !.completedAt = t,
                                      !.error = error]

\* the terminal call that gave m removed d from the active set and put
\* the finished entry at the front of history
MovedToFront(m, d, finished) ==
  /\ ~MapHas(m.active, d)
  /\ Len(m.history) >= 1
  /\ m.history[1] = finished

\* C17: completeOperation(id), and errorOperation(id, msg), called while id
\* has an active entry removes id from the active set and leaves that entry
\* (same id, label, steps, startedAt) at history[0] with status completed,
\* respectively error and error = msg, and completedAt set: the entry
\* never ends in neither the active set nor history.
C17_TerminalMovesToFront ==
  \A d \in Docs, t \in {now, now + 1} :
    MapHas(activeOperations, d) =>
      /\ MovedToFront(completeOperation(Current, d, t), d,
                      Finished(d, "completed", Undefined, t))
      /\ \A e \in ErrorMessages :
           MovedToFront(errorOperation(Current, d, e, t), d,
                        Finished(d, "error", e, t))

\* the states a later call for d, made at time t by a subscription or an
\* arbiter that is still around, can give from m
LaterCalls(m, d, t) ==
  {After(addProgress(m, d, Messages[i], "info", t)) : i \in 1..Len(Messages)}
    \cup {After(completeOperation(m, d, t))}
    \cup {After(errorOperation(m, d, e, t)) : e \in ErrorMessages}

\* C18: removeOperation(id) deletes the active entry of id and leaves
\* history as it was; every later addStep, completeOperation or
\* errorOperation for id changes neither the active set nor history, so
\* the removed attempt gets no history entry.
C18_RemovedLeavesNoRecord ==
  \A d \in Docs, t \in {now, now + 1} :
    LET removed == After(removeOperation(Current, d))
    IN /\ removed.active = MapDelete(activeOperations, d)
       /\ ~MapHas(removed.active, d)
       /\ removed.history = history
       /\ \A m1 \in LaterCalls(removed, d, t) :
            /\ m1 = removed
            /\ \A m2 \in LaterCalls(m1, d, t) : m2 = removed

\* the one entry that was started has been removed, with or without its
\* steps: nothing is active and history is empty
C18_Witness ==
  /\ nStarts = 1
  /\ nProgress = MaxProgress
  /\ activeOperations = <<>>
  /\ history = <<>>

\* the entry startOperation(d, label) makes at time t
Fresh(d, t) ==
  [documentId  |-> d,
   filename    |-> FilenameOf(d),
   status      |-> "active",
   steps       |-> <<>>,
   startedAt   |-> t,
   completedAt |-> NoTime,
   error       |-> Undefined]

\* C19: startOperation(id, label) always leaves an active entry for id
\* with status active, no steps and startedAt the time of the call; an
\* entry that exists is replaced and its steps are gone; no history entry
\* is made, history and the entries of other ids stay as they were.
C19_StartMakesFreshEntry ==
  /\ [](\A d \in Docs, t \in {now, now + 1} :
          LET started == startOperation(Current, d, FilenameOf(d), t)
          IN /\ MapHas(started.active, d)
             /\ MapGet(started.active, d) = Fresh(d, t)
             /\ MapDelete(started.active, d) = MapDelete(activeOperations, d)
             /\ started.history = history)
  /\ [][nStarts' # nStarts =>
          /\ history' = history
          /\ \E d \in Docs : /\ MapHas(activeOperations', d)
                             /\ MapGet(activeOperations', d) = Fresh(d, now)]_vars

\* an entry with two steps has been replaced by a new attempt; the write of
\* the active snapshot was rejected, so the snapshot still shows it
C19_Witness ==
  \E d \in Docs :
    /\ nReloads = 0
    /\ MapHas(activeOperations, d)
    /\ MapGet(activeOperations, d).steps = <<>>
    /\ MapHas(LoadActive(lsActive), d)
    /\ Len(MapGet(LoadActive(lsActive), d).steps) = 2

\* C20: the two snapshots mirror the registry: as long as localStorage has
\* rejected no write, after every registry operation (startOperation,
\* addStep, completeOperation, errorOperation, removeOperation,
\* clearHistory) the persisted active snapshot holds the active set, as a
\* sequence, and the persisted history snapshot holds history.
C20_SnapshotsMirrorRegistry ==
  nRejected = 0 =>
    /\ LoadActive(lsActive) = activeOperations
    /\ LoadHistory(lsHistory) = history

\* what the registry's operations give in memory when they are called now
StartOutcomes == {startOperation(Current, d, FilenameOf(d), now) : d \in Docs}

StepOutcomes ==
  {addProgress(Current, d, Messages[i], "info", now) : d \in Docs, i \in 1..Len(Messages)}

OtherOutcomes ==
  {completeOperation(Current, d, now) : d \in Docs}
    \cup {errorOperation(Current, d, e, now) : d \in Docs, e \in ErrorMessages}
    \cup {removeOperation(Current, d) : d \in Docs}
    \cup {[Current EXCEPT !.history = <<>>]}

\* the step leaves in memory what one of the operations ms gives
InMemory(ms) ==
  \E m \in ms : activeOperations' = m.active /\ history' = m.history

\* C21: when localStorage rejects a write of a snapshot, the operation
\* that caused the write still completes and the active set and history
\* are what the operation gives when the write succeeds, so that later
\* operations find the state they would find without the failure.
C21_RejectedWriteKeepsMemory ==
  [][(nRejected' # nRejected /\ ~IsReload) =>
       IF nStarts' # nStarts THEN InMemory(StartOutcomes)
       ELSE IF nProgress' # nProgress THEN InMemory(StepOutcomes)
       ELSE InMemory(OtherOutcomes)]_vars

\* a write of the active snapshot was rejected: the snapshot is behind the
\* active set
C21_Witness ==
  /\ nRejected = 1
  /\ nReloads = 0
  /\ lsActive.present
  /\ activeOperations # <<>>
  /\ LoadActive(lsActive) # activeOperations

(***************************************************************************)
(* Claims about the frames of the stream.                                  *)
(***************************************************************************)
\* the frames onmessage logs or skips: data that starts with ':', a
\* connected frame, data on which the handler throws
QuietTypes == {"keepalive", "connected", "malformed"}

\* w1 is w, but for the note that a frame was skipped
OnlySkipped(w1, w) == [w1 EXCEPT !.obs.skipped = w.obs.skipped] = w

\* C22: a keepalive, a connected frame and a frame that does not parse
\* invoke no callback, do not close the transport, do not set
\* isManuallyCloseD and leave reconnectAttempts and reconnectTimer alone;
\* the frames that follow are handled as if it had not come.
C22_QuietFramesChangeNothing ==
  /\ [](\A a \in Runs, ty \in QuietTypes :
          arbiter[a].pc # "idle" =>
            LET skipped == onmessage(World(a), Frame(ty, Undefined), now)
            IN /\ OnlySkipped(skipped, World(a))
               /\ \A ty2 \in FrameTypes :
                    OnlySkipped(onmessage(skipped, Frame(ty2, Messages[1]), now),
                                onmessage(World(a), Frame(ty2, Messages[1]), now)))
  /\ [][\A a \in Runs :
          (subscription[a].eventSource = "open" /\ observed'[a].skipped # observed[a].skipped)
            => /\ subscription'[a] = subscription[a]
               /\ arbiter'[a] = arbiter[a]
               /\ activeOperations' = activeOperations
               /\ history' = history
               /\ observed'[a] = [observed[a] EXCEPT !.skipped = TRUE]]_vars

\* a frame was skipped on an open transport and the progress frames after
\* it were recorded
C22_Witness ==
  \E a \in Runs :
    /\ observed[a].skipped
    /\ subscription[a].eventSource = "open"
    /\ ~subscription[a].isManuallyCloseD
    /\ OwnEntryActive(a)
    /\ nProgress = MaxProgress
    /\ Len(MapGet(activeOperations, arbiter[a].docId).steps) = MaxProgress

\* the subscription has closed itself
SelfClosed(sub) ==
  /\ sub.isManuallyCloseD
  /\ sub.eventSource = "null"
  /\ ~sub.reconnectTimer

\* run a is unsettled, its entry is active and its transport is open
Listening(a) ==
  /\ OwnEntryActive(a)
  /\ ~arbiter[a].isCompleted
  /\ subscription[a].eventSource = "open"

\* C23: a complete frame invokes onComplete exactly once and the
\* subscription then closes itself (transport closed, no reconnectTimer,
\* isManuallyCloseD set); an error frame does the same with onError; a
\* progress frame invokes onProgress exactly once with the message of the
\* frame and leaves the subscription open.
C23_FramesReachCallbacks ==
  \A a \in Runs :
    Listening(a) =>
      LET d == arbiter[a].docId
          completed == onmessage(World(a), Frame("complete", Undefined), now)
          failed == onmessage(World(a), Frame("error", Undefined), now)
          stepped == onmessage(World(a), Frame("progress", Messages[1]), now)
      IN /\ completed.obs.terminalCalls = observed[a].terminalCalls + 1
         /\ MovedToFront(completed.m, d, Finished(d, "completed", Undefined, now))
         /\ SelfClosed(completed.sub)
         /\ failed.obs.terminalCalls = observed[a].terminalCalls + 1
         /\ MovedToFront(failed.m, d, Finished(d, "error", ServerErrorMessage, now))
         /\ SelfClosed(failed.sub)
         /\ MapGet(stepped.m.active, d).steps
              = Append(MapGet(activeOperations, d).steps,
                       NewStep(d, Messages[1], "info", now))
         /\ stepped.m.history = history
         /\ stepped.sub = subscription[a]
         /\ stepped.arb = arbiter[a]
         /\ stepped.obs.terminalCalls = observed[a].terminalCalls

\* progress frames were recorded, then the complete frame completed the
\* entry and the subscription closed itself with one cleanup()
C23_Witness ==
  \E a \in Runs :
    /\ observed[a].signal = "stream-complete"
    /\ arbiter[a].pc = "awaiting"
    /\ observed[a].terminalCalls = 1
    /\ observed[a].cleanups = 1
    /\ TransportClosed(a)
    /\ Len(history) = 1
    /\ history[1].status = "completed"
    /\ Len(history[1].steps) = MaxProgress

\* C24: once the reconnections are used up and connection lost has been
\* reported, cleanup() has run, and the subscription opens no connection
\* and schedules no reconnection ever after.
C24_LostIsFinal ==
  /\ [](\A a \in Runs : observed[a].lost >= 1 => TransportClosed(a))
  /\ [][\A a \in Runs :
          /\ observed'[a].lost > observed[a].lost
               => observed'[a].cleanups > observed[a].cleanups
          /\ observed[a].lost >= 1
               => /\ observed'[a].retries = observed[a].retries
                  /\ subscription'[a].reconnectAttempts = subscription[a].reconnectAttempts]_vars

\* connection lost was reported for a run whose request then succeeded
\* and whose timers fired: the subscription stayed closed
C24_Witness ==
  \E a \in Runs :
    /\ observed[a].lost = 1
    /\ observed[a].signal = "stream-error"
    /\ arbiter[a].pc = "resolved"
    /\ ~arbiter[a].cleanupTimer
    /\ observed[a].cleanups >= 3
    /\ TransportClosed(a)

\* w1 is w, but for the count of cleanup() calls
OnlyCounted(w1, w) == [w1 EXCEPT !.obs.cleanups = w.obs.cleanups] = w

\* C25: cleanup() is idempotent: in every state of a subscription
\* (connecting, open, waiting for reconnectTimer, closed by itself after
\* complete or error, cleaned up already) a second and a third call leave
\* what the first call left: the transport closed and released, no
\* reconnectTimer; and it invokes no callback and touches neither the
\* arbiter nor the registry.
C25_CleanupIdempotent ==
  \A a \in Runs :
    arbiter[a].pc # "idle" =>
      LET once == cleanup(World(a))
          twice == cleanup(once)
      IN /\ SelfClosed(once.sub)
         /\ OnlyCounted(twice, once)
         /\ OnlyCounted(cleanup(twice), once)
         /\ once.m = Current
         /\ once.arb = arbiter[a]
         /\ once.cd = classifyingDocs
         /\ once.obs = [observed[a] EXCEPT !.cleanups = @ + 1, !.ended = TRUE]

\* an error frame settled a run: onError called unsubscribe() and the
\* message handler called cleanup() after it
C25_Witness ==
  \E a \in Runs :
    /\ observed[a].signal = "stream-error"
    /\ observed[a].lost = 0
    /\ arbiter[a].pc = "awaiting"
    /\ observed[a].cleanups = 2
    /\ observed[a].terminalCalls = 1
    /\ TransportClosed(a)

\* history holds the entry of run a as an error with the connection-lost
\* message, and holds no other entry of its document
ReportedLost(a) ==
  /\ InHistory(arbiter[a].docId)
  /\ \A i \in HistoryEntriesOf(arbiter[a].docId) :
       /\ history[i].status = "error"
       /\ history[i].error = ConnectionLostMessage

\* C26: when the reconnections of a subscription are used up while its
\* run is unsettled, the arbiter calls errorOperation with the
\* connection-lost message: the entry leaves the active set and its
\* history entry is an error with that message, and stays so.
C26_LostBecomesError ==
  /\ [][\A a \in Runs :
          (observed'[a].lost > observed[a].lost /\ ~arbiter[a].isCompleted)
            => /\ observed'[a].terminalCalls = observed[a].terminalCalls + 1
               /\ arbiter'[a].isCompleted
               /\ ~OwnEntryActive(a)'
               /\ ReportedLost(a)']_vars
  /\ [](\A a \in Runs : observed[a].lost >= 1
          => ~OwnEntryActive(a) /\ ReportedLost(a))

\* connection lost was reported inside the grace window of a request that
\* had succeeded
C26_Witness ==
  \E a \in Runs :
    /\ observed[a].lost = 1
    /\ observed[a].signal = "request-success"
    /\ ReportedLost(a)
    /\ ~MapHas(activeOperations, arbiter[a].docId)

\* the place of a progress message in the order the stream sends them
MessageIndex(message) == CHOOSE k \in 1..Len(Messages) : Messages[k] = message

\* the steps are in the order in which the stream sent their messages
InDeliveryOrder(steps) ==
  \A i, j \in 1..Len(steps) :
    i < j => MessageIndex(steps[i].message) < MessageIndex(steps[j].message)

\* the progress frame delivered in this step
DeliveredStep(d) == NewStep(d, Messages[nProgress + 1], "info", now)

\* C27: the steps of an entry are the progress frames delivered while it
\* was active, in the order of delivery: a frame delivered to a run whose
\* entry is active is appended at the end, nothing else changes the steps
\* of an entry, and the terminal transition carries them to history as
\* they are.
C27_StepsInDeliveryOrder ==
  /\ [](/\ \A i \in 1..Len(activeOperations) : InDeliveryOrder(activeOperations[i].steps)
        /\ \A i \in 1..Len(history) : InDeliveryOrder(history[i].steps))
  /\ [][\A a \in Runs :
          LET d == arbiter[a].docId
          IN (OwnEntryActive(a) /\ OwnEntryActive(a)') =>
               IF nProgress' # nProgress
               THEN MapGet(activeOperations', d).steps
                      = Append(MapGet(activeOperations, d).steps, DeliveredStep(d))
               ELSE MapGet(activeOperations', d).steps = MapGet(activeOperations, d).steps]_vars
  /\ [][\A a \in Runs :
          (OwnEntryActive(a) /\ ~OwnEntryActive(a)') =>
             /\ nProgress' = nProgress
             /\ Len(history') >= 1
             /\ history'[1].documentId = arbiter[a].docId
             /\ history'[1].steps = MapGet(activeOperations, arbiter[a].docId).steps]_vars

\* two progress frames were recorded in order before the request failed
C27_Witness ==
  \E a \in Runs :
    /\ observed[a].signal = "request-failure"
    /\ Len(history) = 1
    /\ history[1].documentId = arbiter[a].docId
    /\ Len(history[1].steps) = 2
    /\ history[1].steps[1].message = Messages[1]
    /\ history[1].steps[2].message = Messages[2]

\* the step puts n entries in front of history and leaves every entry that
\* is not pushed beyond the cap as it is
KeepsEntries(n) ==
  /\ Len(history') <= MAX_HISTORY
  /\ \A i \in 1..Len(history) :
       i + n <= MAX_HISTORY => /\ i + n <= Len(history')
                               /\ history'[i + n] = history[i]

\* C28: an entry of history never changes: whatever registry operations
\* follow, also for its own id, its status, steps, startedAt, completedAt
\* and error stay until the cap evicts it or clearHistory removes it.
C28_HistoryEntriesImmutable ==
  [][~IsReload => \/ history' = <<>>
                  \/ KeepsEntries(0)
                  \/ KeepsEntries(1)]_vars

\* an attempt was completed without steps; a later attempt for the same id
\* was started, got a step and ended as an error: the first entry is as it
\* was
C28_Witness ==
  \E d \in Docs :
    /\ nReloads = 0
    /\ Len(history) = 2
    /\ history[1].documentId = d
    /\ history[2].documentId = d
    /\ history[2].status = "completed"
    /\ history[2].steps = <<>>
    /\ history[1].status = "error"
    /\ Len(history[1].steps) >= 1

\* history is ordered by completedAt, latest first
MostRecentFirst(h) ==
  \A i, j \in 1..Len(h) : i < j => h[i].completedAt >= h[j].completedAt

\* the history the step starts from: on a reload, what the snapshot holds
HistoryBefore == IF IsReload THEN LoadHistory(lsHistory) ELSE history

\* the entries of history the step drops finished no later than any entry
\* it keeps or inserts
EvictsEarliest ==
  \A i \in 1..Len(HistoryBefore) :
    (\A j \in 1..Len(history') : history'[j] # HistoryBefore[i])
      => \A j \in 1..Len(history') :
           history'[j].completedAt >= HistoryBefore[i].completedAt

\* C29: history is ordered most recent first: in every reachable state
\* completedAt does not increase from history[0] to the end, so that the
\* entries the cap evicts are those that finished earliest.
C29_MostRecentFirst ==
  /\ [](MostRecentFirst(history))
  /\ [][history' # <<>> => EvictsEarliest]_vars

\* a terminal transition at a later time has put its entry in front of a
\* full history and pushed the oldest entry out
C29_Witness ==
  /\ Len(history) = MAX_HISTORY
  /\ history[1].completedAt > history[2].completedAt
  /\ history[1].status = "error"
  /\ history[1].error \in ErrorMessages
  /\ history[MAX_HISTORY].completedAt > 1

\* an entry of the active set: active, not finished, without an error
WellFormedActive(op) ==
  /\ op.status = "active"
  /\ op.completedAt = NoTime
  /\ op.error = Undefined

\* an entry of history: completed or error, finished no earlier than it
\* started, with an error message exactly when it is an error
WellFormedFinished(op) ==
  /\ op.status \in {"completed", "error"}
  /\ op.completedAt # NoTime
  /\ op.completedAt >= op.startedAt
  /\ op.error # Undefined <=> op.status = "error"

\* C30: in every reachable state every entry of the active set has status
\* active, no completedAt and no error and is the one entry under its id;
\* every entry of history has status completed or error and a completedAt
\* not earlier than its startedAt; an entry has an error message if and
\* only if its status is error.
C30_RecordsWellFormed ==
  /\ \A i \in 1..Len(activeOperations) :
       /\ WellFormedActive(activeOperations[i])
       /\ MapGet(activeOperations, activeOperations[i].documentId) = activeOperations[i]
       /\ \A j \in 1..Len(activeOperations) :
            activeOperations[j].documentId = activeOperations[i].documentId => i = j
  /\ \A i \in 1..Len(history) : WellFormedFinished(history[i])

\* after a reload the registry holds an active entry, an interrupted entry
\* and an entry that a terminal call finished
C30_Witness ==
  /\ nReloads = 1
  /\ Len(activeOperations) >= 1
  /\ \E i \in 1..Len(history) : history[i].error = InterruptedMessage
  /\ \E i \in 1..Len(history) :
       history[i].status = "completed" \/ history[i].error \in ErrorMessages

OpsOn(d) ==
  {startOperation(Current, d, FilenameOf(d), now)}
    \cup {addProgress(Current, d, Messages[i], "info", now) : i \in 1..Len(Messages)}
    \cup {completeOperation(Current, d, now)}
    \cup {errorOperation(Current, d, e, now) : e \in ErrorMessages}
    \cup {removeOperation(Current, d)}

\* the entries of document b in the history h, in their order
EntriesOf(h, b) == SelectSeq(h, LAMBDA op : op.documentId = b)

\* the active entry of b is in the map a2 what it is now
SameActiveEntry(a2, b) ==
  /\ MapHas(a2, b) <=> MapHas(activeOperations, b)
  /\ MapHas(a2, b) => MapGet(a2, b) = MapGet(activeOperations, b)

\* the entries of b are in the history h2 what they are now, in the same
\* order, but for the oldest when h2 is full
SameHistoryEntries(h2, b) ==
  \/ EntriesOf(h2, b) = EntriesOf(history, b)
  \/ /\ Len(h2) = MAX_HISTORY
     /\ EntriesOf(history, b) # <<>>
     /\ EntriesOf(h2, b) = SubSeq(EntriesOf(history, b), 1, Len(EntriesOf(history, b)) - 1)

\* the step is one of run a
StepOf(a) ==
  \/ arbiter'[a] # arbiter[a]
  \/ subscription'[a] # subscription[a]
  \/ observed'[a] # observed[a]

\* C32: the registry's operations for one id change neither the active
\* entry of another id nor its history entries or their order, but for
\* the eviction of the oldest entry at the cap; and the callbacks, the
\* request and the timers of the run of one document settle no run of
\* another document.
C32_JobsIndependent ==
  /\ [](\A d, b \in Docs : d # b =>
          \A m \in OpsOn(d) : /\ SameActiveEntry(m.active, b)
                              /\ SameHistoryEntries(m.history, b))
  /\ [][\A a, b \in Runs :
          (/\ StepOf(a)
           /\ arbiter[b].pc # "idle"
           /\ arbiter'[a].docId # arbiter[b].docId)
            => /\ arbiter'[b] = arbiter[b]
               /\ observed'[b] = observed[b]
               /\ SameActiveEntry(activeOperations', arbiter[b].docId)
               /\ SameHistoryEntries(history', arbiter[b].docId)]_vars

\* two documents were classified at the same time; the run of one has
\* completed by its stream while the entry of the other is active with
\* its step
C32_Witness ==
  \E a, b \in Runs :
    /\ arbiter[a].docId # arbiter[b].docId
    /\ arbiter[a].pc # "idle"
    /\ observed[a].signal = "stream-complete"
    /\ RunReportedAs(a, "completed")
    /\ OwnEntryActive(b)
    /\ ~arbiter[b].isCompleted
    /\ Len(MapGet(activeOperations, arbiter[b].docId).steps) = 1

\* C33: an entry that is active after the page was opened again leaves the
\* active set at some later time, with no further restart.
C33_RestoredEntryLeaves ==
  \A d \in Docs :
    (nReloads > 0 /\ MapHas(activeOperations, d))
      ~> (~MapHas(activeOperations, d) /\ InHistory(d))

\* C34: clearHistory() changes history only: the active set in memory stays,
\* the persisted active snapshot equals it afterwards, and a reload right
\* after the call restores the active entries a reload right before it
\* would have restored.
C34_ClearHistoryKeepsActive ==
  [][ClearHistory =>
       /\ activeOperations' = activeOperations
       /\ LoadActive(lsActive') = activeOperations'
       /\ LoadActive(lsActive') = LoadActive(lsActive)]_vars

(* Claims about attempts that follow each other on one job. *)
\* run a has started, and the active entry of its document was made by the
\* startOperation of a later run
Superseded(a) ==
  /\ arbiter[a].pc # "idle"
  /\ MapHas(activeOperations, arbiter[a].docId)
  /\ owner[arbiter[a].docId] # a

\* a stream event, the resolution of the request or a timer of run a
SignalOf(a) ==
  \/ EsOpen(a)
  \/ EsMessage(a)
  \/ RequestSuccess(a)
  \/ RequestFailure(a)
  \/ CompletionTimer(a)
  \/ CleanupTimer(a)

\* C35: once a later startOperation has replaced the active entry of an
\* attempt, no stream callback, request resolution, grace timer or hard
\* timer of that attempt completes the new entry, makes it an error or
\* appends a step to it.
C35_SupersededIsSilent ==
  [][\A a \in Runs :
       (Superseded(a) /\ SignalOf(a))
         => SameActiveEntry(activeOperations', arbiter[a].docId)]_vars

(* Claims about the restart of the page. *)
\* the history h2 is the history h behind k entries that were interrupted
\* at the time t, as far as it fits
RestoredBehind(h2, h, k, t) ==
  LET n == IF k > MAX_HISTORY THEN MAX_HISTORY ELSE k
  IN /\ Len(h2) = IF Len(h) + n > MAX_HISTORY THEN MAX_HISTORY ELSE Len(h) + n
     /\ \A i \in 1..n : /\ h2[i].status = "error"
                         /\ h2[i].error = InterruptedMessage
                         /\ h2[i].completedAt = t
     /\ SubSeq(h2, n + 1, Len(h2)) = SubSeq(h, 1, Len(h2) - n)

addProgressRerun(m, documentId, message, type, t) ==
  addProgress(addProgress(m, documentId, message, type, t),
              documentId, message, type, t)

\* the updater of completeOperation: both calls copy the operation and
\* queue the history updater with their copy
completeOperationRerun(m, documentId, t) ==
  IF ~MapHas(m.active, documentId)
  THEN m
  ELSE LET second == completeOperation(m, documentId, t)
           queued == [MapGet(m.active, documentId) EXCEPT
                        !.status = "completed", !.completedAt = t]
       IN [AddToHistory(second, queued) EXCEPT !.active = second.active]

\* the updater of errorOperation, likewise
errorOperationRerun(m, documentId, error, t) ==
  IF ~MapHas(m.active, documentId)
  THEN m
  ELSE LET second == errorOperation(m, documentId, error, t)
           queued == [MapGet(m.active, documentId) EXCEPT
                        !.status = "error", !.completedAt = t, !.error = error]
       IN [AddToHistory(second, queued) EXCEPT !.active = second.active]

\* the updater of the mount effect: both calls queue
\* [...staleOps, ...prevHistory].slice(0, MAX_HISTORY)
staleEffectRerun(m, t) ==
  LET first == staleEffect(m, t)
      second == staleEffect([m EXCEPT !.history = first.history], t)
  IN [second EXCEPT !.dirtyHistory = first.dirtyHistory]

\* the same active set and the same history
SameRegistry(m1, m2) == m1.active = m2.active /\ m1.history = m2.history

\* what the initializers load from the snapshots
Loaded == Mem(LoadActive(lsActive), LoadHistory(lsHistory))

\* C37: the updaters of addProgress, completeOperation, errorOperation and of
\* the stale conversion at load give, run twice on the same prior state,
\* the active set and history they give run once: one addProgress appends
\* one step, one stale entry makes one history entry.
C37_UpdatersRerunSafe ==
  /\ \A d \in Docs :
       /\ \A i \in 1..Len(Messages) :
            SameRegistry(addProgressRerun(Current, d, Messages[i], "info", now),
                         addProgress(Current, d, Messages[i], "info", now))
       /\ SameRegistry(completeOperationRerun(Current, d, now),
                       completeOperation(Current, d, now))
       /\ \A e \in ErrorMessages :
            SameRegistry(errorOperationRerun(Current, d, e, now),
                         errorOperation(Current, d, e, now))
  /\ SameRegistry(staleEffectRerun(Loaded, now), staleEffect(Loaded, now))

(* Claims about the transports of one subscription. *)
\* the subscription sub holds no transport and waits for no reconnection
Shut(sub) ==
  /\ sub.isManuallyCloseD
  /\ sub.eventSource = "null"
  /\ ~sub.reconnectTimer

\* C38: once cleanup() has run on a subscription no connection is opened
\* for it again: a pending reconnect timer is cancelled, and a callback of
\* the reconnect timer or a connect() call that runs all the same returns
\* without making a transport.
C38_NoConnectionAfterCleanup ==
  \A a \in Runs :
    LET cleaned == cleanup(World(a))
    IN /\ Shut(cleaned.sub)
       /\ reconnect(cleaned).sub = cleaned.sub
       /\ connect(cleaned, FALSE).sub = cleaned.sub
       /\ subscription[a].isManuallyCloseD =>
            /\ Shut(subscription[a])
            /\ reconnect(World(a)).sub = subscription[a]
            /\ connect(World(a), TRUE).sub = subscription[a]

\* cleanup() ran while the first reconnection was waiting for its timer
C38_Witness ==
  \E a \in Runs :
    /\ Shut(subscription[a])
    /\ observed[a].cleanups >= 1
    /\ subscription[a].reconnectAttempts = 1
    /\ observed[a].retries = 1
    /\ observed[a].failedRetries = 0
    /\ ~observed[a].pendingRetry

\* the transport of run a fails in this step
Drops == nDrops' # nDrops

\* C39: the open of a transport sets reconnectAttempts to 0, so the budget of
\* 3 reconnections is one per outage: reconnectAttempts is never above 3,
\* after an open each of the next 3 failures in a row schedules a
\* reconnection and reports nothing, and connection lost is reported with
\* the failure of the 3rd reconnection since the last open.
C39_BudgetPerOutage ==
  /\ [](\A a \in Runs : subscription[a].reconnectAttempts \in 0..maxReconnectAttempts)
  /\ [][\A a \in Runs :
          /\ EsOpen(a) => /\ subscription'[a].reconnectAttempts = 0
                          /\ subscription'[a].eventSource = "open"
          /\ (/\ Drops
              /\ subscription'[a] # subscription[a]
              /\ subscription[a].reconnectAttempts < maxReconnectAttempts)
               => /\ observed'[a].lost = observed[a].lost
                  /\ subscription'[a].reconnectTimer
                  /\ subscription'[a].reconnectAttempts
                       = subscription[a].reconnectAttempts + 1
          /\ observed'[a].lost # observed[a].lost
               => /\ Drops
                  /\ subscription[a].reconnectAttempts = maxReconnectAttempts
                  /\ observed'[a].failedRetries = maxReconnectAttempts]_vars

\* a reconnection opened, the transport dropped again, and connection lost
\* was reported after 3 more reconnections, which all failed
C39_Witness ==
  \E a \in Runs :
    /\ observed[a].lost = 1
    /\ observed[a].retries = maxReconnectAttempts + 1
    /\ subscription[a].reconnectAttempts = maxReconnectAttempts
    /\ Shut(subscription[a])

\* the number of steps of the active entry of d in the map a2, 0 if none
StepsOf(a2, d) == IF MapHas(a2, d) THEN Len(MapGet(a2, d).steps) ELSE 0

\* C40: a subscription has at most one transport and at most one reconnect
\* timer at a time: while a reconnection waits for its timer the transport
\* is closed, events of a transport that was closed are delivered only
\* while no other is held, a reconnection is scheduled only when none is
\* waiting, the timer's callback finds the previous transport closed when
\* it makes the next; so the delivery of one progress frame makes at most
\* one step.
C40_OneTransportOneTimer ==
  /\ [](\A a \in Runs :
          /\ subscription[a].reconnectTimer => subscription[a].eventSource = "closed"
          /\ subscription[a].inFlight > 0 => subscription[a].eventSource = "null")
  /\ [][\A a \in Runs :
          /\ observed'[a].retries # observed[a].retries
               => /\ ~subscription[a].reconnectTimer
                  /\ subscription'[a].eventSource = "closed"
          /\ ReconnectTimer(a)
               => /\ subscription[a].eventSource = "closed"
                  /\ subscription'[a].eventSource = "connecting"
                  /\ ~subscription'[a].reconnectTimer
          /\ nProgress' # nProgress
               => \A d \in Docs :
                    StepsOf(activeOperations', d) <= StepsOf(activeOperations, d) + 1]_vars

\* a reconnection opened and delivered a progress frame, the transport
\* failed again and the next reconnection waits for its timer
C40_Witness ==
  \E a \in Runs :
    /\ subscription[a].reconnectTimer
    /\ subscription[a].eventSource = "closed"
    /\ subscription[a].reconnectAttempts = 1
    /\ observed[a].retries = 2
    /\ OwnEntryActive(a)
    /\ StepsOf(activeOperations, arbiter[a].docId) = 1
====
